---- MODULE Spec2Model ----
(***************************************************************************)
(* Decoding core of the LAS RNN decoder                                    *)
(* (neural_sp/models/seq2seq/decoders/las.py): greedy, beam_search and     *)
(* beam_search_chunk_sync as state machines over one decoder object.       *)
(*                                                                         *)
(* Abstractions.                                                           *)
(*  - decode_step + output layer (torch modules) are a deterministic       *)
(*    function of the utterance and of the token fed to the step.  Its     *)
(*    value is an input: a row [att, aw] is drawn the first time it is     *)
(*    needed and is reused by every later step and call (variable net).    *)
(*    att gives one log-probability per token (distinct integers), aw the  *)
(*    total attention mass of the step (0 or 1).  The utterances of a      *)
(*    batch share the table and read it at keys shifted by their index.    *)
(*  - the first-pass LM and the CTC prefix scorer return one value per     *)
(*    candidate token, also functions of the fed token (LmRow, CtcRow).    *)
(*  - weights and ratios are rationals with denominator WDen; a total      *)
(*    score is the pair <<n, d>> standing for n / (d * WDen).              *)
(***************************************************************************)
EXTENDS Integers, Sequences, FiniteSets, TLC

\* ---------------------------------------------------------------- bounds
MaxT == 2          \* longest encoder output, in frames
MaxBatch == 2      \* utterances per batch
MaxBeam == 2       \* largest beam width
MaxCalls == 2      \* decoding calls made on the decoder object
WDen == 2          \* denominator of the rational weights and ratios

\* ------------------------------------------------------------ vocabulary
MaxL == 1           \* longest reference transcript of a training batch
MaxN == 3           \* largest N-best size of MBR training
MaxUtts == 2        \* largest dataset of an evaluation
MaxW == 2           \* most words of a transcript
VocabSize == 3
Vocab == 0 .. (VocabSize - 1)
DefaultEos == 1    \* index of <eos> unless the configuration says otherwise
None == -1         \* Python None
pad == 3           \* self.pad

\* ------------------------------------------------------- sequence helpers
Max2(a, b) == IF a >= b THEN a ELSE b

RECURSIVE SeqMax(_)
SeqMax(s) == IF Len(s) = 1 THEN s[1] ELSE Max2(s[1], SeqMax(Tail(s)))

Front(s) == SubSeq(s, 1, Len(s) - 1)

LastOf(s) == s[Len(s)]

Take(s, n) == SubSeq(s, 1, IF n < Len(s) THEN n ELSE Len(s))

Drop(s, n) == SubSeq(s, n + 1, Len(s))

RECURSIVE Flatten(_)
Flatten(ss) == IF ss = <<>> THEN <<>> ELSE ss[1] \o Flatten(Tail(ss))

\* ------------------------------------------------------ rational scores
RLess(x, y) == x[1] * y[2] < y[1] * x[2]

REq(x, y) == x[1] * y[2] = y[1] * x[2]

\* --------------------------------------------------- the decoder oracle
NoRow == [att |-> <<>>, aw |-> None]

\* <eos> best, <eos> second, <eos> worst; a step that finds no attention
\* boundary (mass 0)
Rows == {[att |-> <<-2, -1, -3>>, aw |-> 1],
         [att |-> <<-1, -2, -3>>, aw |-> 1],
         [att |-> <<-3, -1, -2>>, aw |-> 0],
         [att |-> <<-2, -3, -1>>, aw |-> 1]}

\* scores_att[j, v]: attention log-probability of token v (0-based)
AttOf(row, v) == row.att[v + 1]

\* log-probabilities of the first-pass LM for the step that was fed y
LmRow(y) == [v \in Vocab |-> -1 - ((y + 2 * v) % 3)]

\* CTC prefix scores of the candidates of a hypothesis of length n
CtcRow(y, n) == [v \in Vocab |-> (-n) - ((2 * y + v) % 2)]

\* ------------------------------------------------- inputs of the calls
\* elens: encoder length of every utterance of the batch (the padded
\* encoder output eouts has xmax = max(elens) frames)
ElensSet == UNION {[1 .. n -> 1 .. MaxT] : n \in 1 .. MaxBatch}

CtcWeights == {0, 1}         \* recog_ctc_weight      (units of 1/WDen)
LmWeights == {0, 1}          \* recog_lm_weight       (units of 1/WDen)
LpWeights == {0, WDen}       \* recog_length_penalty  (0 and 1.0)
CpWeights == {0, 1}          \* recog_coverage_penalty (units of 1/WDen)
MinLenRatios == {0, 1}       \* recog_min_len_ratio   (units of 1/WDen)
MaxLenRatios == {1, WDen}    \* recog_max_len_ratio   (units of 1/WDen)
EosThresholds == {WDen}      \* recog_eos_threshold   (1.0)

\* the scoring options of a call: attention only; CTC, LM, additive length
\* penalty and coverage penalty together; GNMT length penalty; length
\* normalisation
ScoringSet ==
    {s \in [ctc_weight : CtcWeights, lm_weight : LmWeights, lp_weight : LpWeights,
            gnmt_decoding : BOOLEAN, cp_weight : CpWeights, length_norm : BOOLEAN] :
        LET additive == {s.ctc_weight > 0, s.lm_weight > 0, s.cp_weight > 0}
        IN \/ additive = {FALSE} /\ ~s.gnmt_decoding /\ s.lp_weight = 0
           \/ additive = {TRUE} /\ ~s.gnmt_decoding /\ s.lp_weight > 0 /\ ~s.length_norm
           \/ additive = {FALSE} /\ s.gnmt_decoding /\ s.lp_weight > 0 /\ ~s.length_norm}

Plain == [ctc_weight |-> 0, lm_weight |-> 0, lp_weight |-> 0, gnmt_decoding |-> FALSE,
          cp_weight |-> 0, length_norm |-> FALSE]

\* speakers: the speaker of every utterance of every call, or <<>> when the
\* calls are made with speakers=None
Speakers == {"A", "B"}

SpeakersSet(n) == [1 .. MaxCalls -> [1 .. n -> Speakers]]

\* batches of several utterances are decoded with attention scores only;
\* no speakers are given
Configs ==
    {c \in [elens : ElensSet, beam_width : 1 .. MaxBeam, scoring : ScoringSet,
            min_len_ratio : MinLenRatios, max_len_ratio : MaxLenRatios,
            eos_threshold : EosThresholds, speakers : {<<>>},
            asr_state_CO : {FALSE}, lm_state_CO : {FALSE}] :
        Len(c.elens) > 1 => c.scoring = Plain}

\* shallow fusion with an LM and nothing else
WithLm == [Plain EXCEPT !.lm_weight = 1]

\* calls of beam_search with speakers, with and without state carry-over
ConfigsSpk ==
    {c \in [elens : ElensSet, beam_width : 1 .. MaxBeam, scoring : {Plain, WithLm},
            min_len_ratio : {0}, max_len_ratio : {1},
            eos_threshold : EosThresholds,
            speakers : UNION {SpeakersSet(n) : n \in 1 .. MaxBatch},
            asr_state_CO : BOOLEAN, lm_state_CO : BOOLEAN] :
        /\ Len(c.speakers[1]) = Len(c.elens)
        /\ c.lm_state_CO => c.asr_state_CO /\ c.scoring = WithLm}

\* reference transcripts of a training batch: no <eos> inside
YsSet(n) == [1 .. n -> UNION {[1 .. l -> Vocab \ {DefaultEos}] : l \in 0 .. MaxL}]

SsProbs == {0, 1, WDen}      \* self._ss_prob: 0, 0.5 and 1.0

\* forward passes over one training batch
ConfigsFwd ==
    UNION {[elens : {[i \in 1 .. n |-> MaxT]}, ys : YsSet(n), ss_prob : SsProbs,
            discourse_aware : BOOLEAN, training : BOOLEAN] : n \in 1 .. MaxBatch}

\* the argument task of forward: all/ys*/ys_sub*
Tasks == {"all", "ys", "ys.ctc", "ys.mbr"}

\* calls of forward: ctc_weight and global_weight in units of 1/WDen,
\* mbr is `self.mbr is not None`, n_best is recog_beam_width
ConfigsLoss ==
    {c \in [elens : {[i \in 1 .. n |-> MaxT] : n \in 1 .. MaxBatch},
            ctc_weight : {0, 1}, global_weight : {0, 1, WDen},
            mtl_per_batch : BOOLEAN, mbr : BOOLEAN, mbr_ce_weight : {0, 1},
            n_best : 2 .. MaxN, task : Tasks, training : BOOLEAN] :
        /\ c.ctc_weight <= c.global_weight
        /\ ~c.mbr => c.mbr_ce_weight = 0 /\ c.n_best = 2
        /\ c.mbr => c.global_weight > 0
        /\ c.mbr /\ Len(c.elens) > 1 => c.n_best = 2}

\* evaluations of a dataset of n_utts utterances
ConfigsCer == [n_utts : 1 .. MaxUtts]

\* calls of beam_search on one utterance with attention scores only: alone
\* or with one ensemble member (whose vocabulary size may differ), and with
\* <eos> at any index of the vocabulary
ConfigsEns ==
    {c \in [elens : [1 .. 1 -> 1 .. MaxT], beam_width : 1 .. MaxBeam, scoring : {Plain},
            min_len_ratio : MinLenRatios, max_len_ratio : {WDen},
            eos_threshold : EosThresholds, speakers : {<<>>},
            asr_state_CO : {FALSE}, lm_state_CO : {FALSE},
            n_models : {1, 2}, ensmbl_mismatch : BOOLEAN, eos : Vocab] :
        c.ensmbl_mismatch => c.n_models > 1}

\* decoding calls on a decoder built with either recurrent cell type,
\* attention scores only
ConfigsDec ==
    [elens : ElensSet, beam_width : 1 .. MaxBeam, scoring : {Plain},
     min_len_ratio : {0}, max_len_ratio : MaxLenRatios,
     eos_threshold : EosThresholds, speakers : {<<>>},
     asr_state_CO : {FALSE}, lm_state_CO : {FALSE},
     rnn_type : {"lstm", "gru"}, bwd : BOOLEAN]

\* ------------------------------------------------------------- state
VARIABLES
    cfg,            \* inputs and decoding parameters of the calls
    net,            \* rows of the decoder oracle drawn so far
    nbest,          \* beam_search: the argument nbest of the call in progress
    pc,             \* position of the call in progress
    calls,          \* number of calls started
    b,              \* beam_search: index of the utterance (1-based)
    t,              \* step counter of the loop `for t in range(ymax)`
    nsteps,         \* decode_step invocations of the loop in progress
    hyps,           \* active hypotheses
    end_hyps,       \* completed hypotheses
    hyps_nobd,      \* chunk_sync: no_boundary hypotheses pruned from the beam
    chunk,          \* chunk_sync: index of the chunk being decoded (0 = first)
    ignore_eos,     \* chunk_sync: the argument ignore_eos of the call
    n_frames,       \* self.n_frames
    score_resets,   \* number of calls of self.score.reset() so far
    hyps_batch,     \* greedy: tokens generated for every item
    ylens,          \* greedy: number of tokens kept for every item
    g_eos_flags,    \* greedy: the item has emitted <eos>
    nbest_hyps_idx, \* beam_search: N-best token sequences per utterance
    scores,         \* beam_search: returned scores per utterance
    eos_flags,      \* beam_search: per utterance, per entry: ends with <eos>
    aws,            \* beam_search: returned attention trajectory per utterance
    dstates_final,  \* self.dstates_final
    lmstate_final,  \* self.lmstate_final
    prev_spk,       \* self.prev_spk
    entry,          \* stored state at the entry of the call in progress
    ret,            \* what each operation returned
    err,            \* the exception that ended the call, if any
    new_session,    \* self.new_session
    dstate_prev,    \* self.dstate_prev
    fwd,            \* forward_att: the locals of the pass in progress
    fwd_ret,        \* forward_att: what the passes so far returned
    fnet,           \* outputs of decode_step drawn so far, by decoder state
    training,       \* self.training
    fw,             \* forward: the locals of the call in progress
    fw_ret,         \* forward: what the call returned, if it is over
    ev,             \* do_eval_cer: the locals of the call in progress
    ev_ret          \* do_eval_cer: what the call returned

vars == <<cfg, net, nbest, pc, calls, b, t, nsteps, hyps, end_hyps,
          hyps_nobd, chunk, ignore_eos, n_frames, score_resets,
          hyps_batch, ylens, g_eos_flags, nbest_hyps_idx,
          scores, eos_flags, aws, dstates_final, lmstate_final, prev_spk, entry, ret, err,
          new_session, dstate_prev, fwd, fwd_ret, fnet, training, fw, fw_ret,
          ev, ev_ret>>

\* the state of do_eval_cer
evars == <<ev, ev_ret>>

\* the state of forward
lvars == <<training, fw, fw_ret>>

\* the state of the training forward pass
fvars == <<new_session, dstate_prev, fwd, fwd_ret, fnet, lvars, evars>>

\* self.eos
eos == IF "eos" \in DOMAIN cfg THEN cfg.eos ELSE DefaultEos

\* n_models = len(ensmbl_decs) + 1, line 1013
n_models == IF "n_models" \in DOMAIN cfg THEN cfg.n_models ELSE 1

\* self.bwd: the decoder generates the tokens from last to first
bwd == IF "bwd" \in DOMAIN cfg THEN cfg.bwd ELSE FALSE

\* x[::-1]: the first axis of x in reverse order
Reverse(s) == [i \in 1 .. Len(s) |-> s[Len(s) + 1 - i]]

\* self.rnn_type
rnn_type == IF "rnn_type" \in DOMAIN cfg THEN cfg.rnn_type ELSE "lstm"

bs == Len(cfg.elens)

xmax == SeqMax(cfg.elens)

beam_width == cfg.beam_width

\* a ceiling that lets one more step through
YmaxOneMore(T) == ((T * cfg.max_len_ratio) \div WDen) + 2

\* int(math.floor(T * max_len_ratio)) + 1
Ymax(T) == ((T * cfg.max_len_ratio) \div WDen) + 1

StoredState == [dstates_final |-> dstates_final, lmstate_final |-> lmstate_final,
                prev_spk |-> prev_spk, score_resets |-> score_resets]

NotCalled == [status |-> "not_called"]

\* no forward pass in progress
NoFwd == [t |-> None]

\* no call of forward in progress
NoFw == [b |-> None]

\* no call of do_eval_cer in progress
NoEv == [i |-> None]

\* ---------------------------------------------------- the decoder oracle
\* the key of the row decode_step reads for utterance u fed token y
KeyOf(u, y) == (y + u - 1) % VocabSize

RowOf(n, u, y) == n[KeyOf(u, y)]

\* the tables that extend n by a row for every key that has none
Extend(n, keys) ==
    LET missing == {k \in keys : n[k] = NoRow}
    IN {[k \in Vocab |-> IF k \in missing THEN rows[k] ELSE n[k]] :
            rows \in [missing -> Rows]}

\* ------------------------------------------------------- beam search
\* torch.topk(total_scores, k, sorted=True): the k best token ids of the
\* row, best first (the log-probabilities of a row are distinct)
RECURSIVE TopKFrom(_, _, _)
TopKFrom(row, k, S) ==
    IF k = 0 THEN <<>>
    ELSE LET m == CHOOSE v \in S : \A w \in S : AttOf(row, w) <= AttOf(row, v)
         IN <<m>> \o TopKFrom(row, k - 1, S \ {m})

\* a top-k that returns the best token k times
TopKRepeated(row, k) == [i \in 1 .. k |-> TopKFrom(row, 1, Vocab)[1]]

TopK(row, k) == TopKFrom(row, k, Vocab)

\* scores_att[j, :idx].max() and scores_att[j, idx + 1:].max()
MaxNoEos(row, idx) ==
    SeqMax([i \in 1 .. (VocabSize - 1) |->
               AttOf(row, IF i - 1 < idx THEN i - 1 ELSE i)])

\* sum of the attention masses of aws[1:] + [aw] (cp_threshold == 0, 1 head)
RECURSIVE SumSeq(_)
SumSeq(s) == IF s = <<>> THEN 0 ELSE s[1] + SumSeq(Tail(s))

\* BeamSearch.add_ctc_score: the CTC prefix score of candidate idx and the
\* score x = <<n, d>> with ctc_weight times that score added
AddCtcScore(beam, idx, x) ==
    IF cfg.scoring.ctc_weight = 0 THEN [ctc |-> 0, fused |-> x]
    ELSE LET c == CtcRow(LastOf(beam.hyp), Len(beam.hyp))[idx]
         IN [ctc |-> c, fused |-> <<x[1] + c * cfg.scoring.ctc_weight * x[2], x[2]>>]

\* a length penalty that counts the tokens of the prefix only
AddLengthPenaltyPrefixOnly(x, len) ==
    IF cfg.scoring.lp_weight > 0
    THEN IF cfg.scoring.gnmt_decoding
         THEN <<x[1] * 6, x[2] * (6 + len)>>
         ELSE <<x[1] + len * cfg.scoring.lp_weight * x[2], x[2]>>
    ELSE x

\* the length penalty of lines 1206-1211 applied to the score x = <<n, d>>
AddLengthPenalty(x, len) ==
    IF cfg.scoring.lp_weight > 0
    THEN IF cfg.scoring.gnmt_decoding
         THEN <<x[1] * 6, x[2] * (6 + len)>>
         ELSE <<x[1] + (len + 1) * cfg.scoring.lp_weight * x[2], x[2]>>
    ELSE x

\* the coverage penalty of lines 1214-1231
Coverage(beam, row) ==
    IF cfg.scoring.cp_weight > 0 THEN SumSeq(Tail(beam.aws) \o <<row.aw>>) ELSE 0

\* length_norm_factor of lines 1240-1242
LengthNormFactor(beam) == IF cfg.scoring.length_norm THEN (Len(beam.hyp) - 1) + 1 ELSE 1

\* the hypothesis that extends beam by its k-th best token (lines 1193-1283)
Candidate(beam, row, k) ==
    LET sc == cfg.scoring
        idx == TopK(row, beam_width)[k]
        len == Len(beam.hyp) - 1
        total_att == beam.score_att + AttOf(row, idx)
        total_lm == IF sc.lm_weight > 0
                    THEN beam.score_lm + LmRow(LastOf(beam.hyp))[idx] ELSE 0
        s1 == <<total_att * (WDen - sc.ctc_weight) + total_lm * sc.lm_weight, 1>>
        s2 == AddLengthPenalty(s1, len)
        cp == Coverage(beam, row)
        s3 == <<s2[1] + cp * sc.cp_weight * s2[2], s2[2]>>
        ctc == AddCtcScore(beam, idx, s3)
        s4 == ctc.fused
    IN [hyp |-> beam.hyp \o <<idx>>,
        score |-> <<s4[1], s4[2] * LengthNormFactor(beam)>>,
        score_att |-> total_att,
        score_cp |-> cp,
        score_ctc |-> ctc.ctc,
        score_lm |-> total_lm,
        dstates |-> beam.dstates \o <<LastOf(beam.hyp)>>,
        lmstate |-> IF sc.lm_weight > 0 THEN beam.hyp ELSE <<None>>,
        aws |-> beam.aws \o <<row.aw>>,
        no_boundary |-> FALSE]

\* lines 1245-1253: an <eos> candidate that is discarded
EosRejected(beam, row, T) ==
    \/ WDen * (Len(beam.hyp) - 1) < T * cfg.min_len_ratio
    \/ WDen * AttOf(row, eos) <= cfg.eos_threshold * MaxNoEos(row, eos)

\* the candidates of one hypothesis that enter new_hyps, best token first
Expand(beam, row, T) ==
    LET all == [k \in 1 .. beam_width |-> Candidate(beam, row, k)]
        Kept(c) == ~(LastOf(c.hyp) = eos /\ EosRejected(beam, row, T))
    IN SelectSeq(all, Kept)

\* sorted(new_hyps, key=score, reverse=True): a stable descending sort
RECURSIVE SortedByScore(_)
SortedByScore(s) ==
    IF s = <<>> THEN <<>>
    ELSE LET r == SortedByScore(Front(s))
             x == LastOf(s)
             p == Cardinality({i \in 1 .. Len(r) : ~RLess(r[i].score, x.score)})
         IN SubSeq(r, 1, p) \o <<x>> \o SubSeq(r, p + 1, Len(r))

\* a hypothesis that has emitted <eos>
IsComplete(h) == Len(h.hyp) > 1 /\ LastOf(h.hyp) = eos

\* BeamSearch.remove_complete_hyp(hyps_sorted, end_hyps)
RemoveCompleteHyp(hyps_sorted, ends) ==
    LET active == SelectSeq(hyps_sorted, LAMBDA h : ~IsComplete(h))
        done == SelectSeq(hyps_sorted, IsComplete)
    IN [new_hyps |-> active, end_hyps |-> ends \o done, is_finish |-> active = <<>>]

\* local pruning without the cut to beam_width
LocalPruningNoCut(new_hyps) == SortedByScore(new_hyps)

\* local pruning, line 1286
LocalPruning(new_hyps) == Take(SortedByScore(new_hyps), beam_width)

\* a starting hypothesis with an empty attention history
InitHypNoAws ==
    [hyp |-> <<eos>>, score |-> <<0, 1>>, score_att |-> 0, score_cp |-> 0,
     score_ctc |-> 0, score_lm |-> 0, dstates |-> <<>>, lmstate |-> <<None>>,
     aws |-> <<>>, no_boundary |-> FALSE]

\* the hypothesis of lines 1099-1112
InitHyp ==
    [hyp |-> <<eos>>, score |-> <<0, 1>>, score_att |-> 0, score_cp |-> 0,
     score_ctc |-> 0, score_lm |-> 0, dstates |-> <<>>, lmstate |-> <<None>>,
     aws |-> <<None>>, no_boundary |-> FALSE]

\* --------------------------------------------------------------- Init
InitWith(C) ==
    /\ cfg \in C
    /\ net = [k \in Vocab |-> NoRow]
    /\ nbest = 0
    /\ pc = "idle"
    /\ calls = 0
    /\ b = 0
    /\ t = 0
    /\ nsteps = 0
    /\ hyps = <<>>
    /\ end_hyps = <<>>
    /\ hyps_nobd = <<>>
    /\ chunk = 0
    /\ ignore_eos = FALSE
    /\ n_frames = 0
    /\ score_resets = 0
    /\ hyps_batch = <<>>
    /\ ylens = <<>>
    /\ g_eos_flags = <<>>
    /\ nbest_hyps_idx = <<>>
    /\ scores = <<>>
    /\ eos_flags = <<>>
    /\ aws = <<>>
    /\ dstates_final = <<None>>
    /\ lmstate_final = <<None>>
    /\ prev_spk = ""
    /\ entry = [dstates_final |-> <<None>>, lmstate_final |-> <<None>>, prev_spk |-> "",
                score_resets |-> 0]
    /\ ret = [greedy |-> NotCalled, beam |-> NotCalled, chunk |-> NotCalled]
    /\ err = ""
    /\ new_session = FALSE
    /\ dstate_prev = <<>>               \* None: no state was stored yet
    /\ fwd = NoFwd
    /\ fwd_ret = <<>>
    /\ fnet = <<>>
    /\ training = IF "training" \in DOMAIN cfg THEN cfg.training ELSE TRUE
    /\ fw = NoFw
    /\ fw_ret = NotCalled
    /\ ev = NoEv
    /\ ev_ret = NotCalled

Init == InitWith(Configs)

\* the locals of a call that is over
ResetLocals ==
    /\ b' = 0
    /\ t' = 0
    /\ hyps' = <<>>
    /\ end_hyps' = <<>>
    /\ hyps_nobd' = <<>>
    /\ chunk' = 0
    /\ ignore_eos' = FALSE
    /\ hyps_batch' = <<>>
    /\ ylens' = <<>>
    /\ g_eos_flags' = <<>>
    /\ nbest_hyps_idx' = <<>>
    /\ scores' = <<>>
    /\ eos_flags' = <<>>
    /\ aws' = <<>>

\* an exception leaves the call: nothing but pc and err changes
Raise(e) ==
    /\ pc' = "error"
    /\ err' = e
    /\ UNCHANGED <<hyps_nobd, chunk, ignore_eos, n_frames, cfg, fvars, score_resets, net, nbest, calls, b, t, nsteps, hyps, end_hyps, hyps_batch,
                   ylens, g_eos_flags, nbest_hyps_idx, scores, eos_flags, aws, dstates_final,
                   lmstate_final, prev_spk, entry, ret>>

\* an assertion that forgets the upper bound
NbestLowerOnly(n) == 1 <= n

\* assert 1 <= nbest <= beam_width, line 1016
NbestOk(n) == 1 <= n /\ n <= beam_width

\* ------------------------------------------------ beam_search, lines 1012-1048
CallBeamSearch ==
    /\ pc = "idle"
    /\ calls < MaxCalls
    /\ calls' = calls + 1
    /\ entry' = StoredState
    /\ nsteps' = 0
    /\ nbest' \in 0 .. (beam_width + 1)
    /\ IF NbestOk(nbest')
       THEN /\ pc' = "bs_utt"
            /\ b' = 1
            /\ err' = err
       ELSE /\ pc' = "error"
            /\ err' = "AssertionError"
            /\ b' = b
    /\ UNCHANGED <<hyps_nobd, chunk, ignore_eos, n_frames, cfg, fvars, score_resets, net, t, hyps, end_hyps, hyps_batch, ylens, g_eos_flags,
                   nbest_hyps_idx, scores, eos_flags, aws, dstates_final, lmstate_final,
                   prev_spk, ret>>

\* speakers[b] of the call in progress (speakers is not None)
Spk == cfg.speakers[calls][b]

\* speakers is not None and speakers[b] == self.prev_spk, line 1074
SameSpeaker == cfg.speakers # <<>> /\ Spk = prev_spk

\* the decoder state the utterance starts from, lines 1053 and 1074-1076
StartDstates == IF SameSpeaker /\ cfg.asr_state_CO THEN dstates_final ELSE <<>>

\* the LM state the utterance starts from, lines 1054 and 1077-1079 (RNNLM)
StartLmstate ==
    IF SameSpeaker /\ cfg.lm_state_CO /\ cfg.scoring.lm_weight > 0
    THEN lmstate_final ELSE <<None>>

\* a decoder that never clears its stored state
ResetStoredNever == FALSE

\* the else branch of line 1074: the stored state is reset, lines 1090-1093
ResetStored == cfg.speakers # <<>> /\ Spk # prev_spk

\* initialization per utterance, lines 1050-1113
BeamUtt ==
    /\ pc = "bs_utt"
    /\ score_resets' = score_resets + 1      \* self.score.reset(), line 1052
    /\ hyps' = <<[InitHyp EXCEPT !.dstates = StartDstates, !.lmstate = StartLmstate]>>
    /\ IF ResetStored
       THEN dstates_final' = <<None>> /\ lmstate_final' = <<None>>
       ELSE UNCHANGED <<dstates_final, lmstate_final>>
    /\ prev_spk' = IF cfg.speakers # <<>> THEN Spk ELSE prev_spk
    /\ end_hyps' = <<>>
    /\ t' = 0
    /\ nsteps' = 0
    /\ pc' = "bs_step"
    /\ UNCHANGED <<hyps_nobd, chunk, ignore_eos, n_frames, cfg, fvars, net, nbest, calls, b, hyps_batch, ylens, g_eos_flags, nbest_hyps_idx,
                   scores, eos_flags, aws, entry,
                   ret, err>>

\* the candidates of the whole beam, in the order of lines 1191 and 1238
NewHyps(hs, n, u) ==
    Flatten([j \in 1 .. Len(hs) |->
                Expand(hs[j], RowOf(n, u, LastOf(hs[j].hyp)), cfg.elens[u])])

\* an exception raised after the decode_step of the iteration (line 1160)
\* has run: the exception is one of es, the oracle has answered with m
RaiseInStep(es, m) ==
    /\ pc' = "error"
    /\ err' \in es
    /\ net' = m
    /\ nsteps' = nsteps + 1
    /\ UNCHANGED <<hyps_nobd, chunk, ignore_eos, n_frames, cfg, fvars, score_resets, nbest, calls, b, t, hyps, end_hyps, hyps_batch,
                   ylens, g_eos_flags, nbest_hyps_idx, scores, eos_flags, aws, dstates_final,
                   lmstate_final, prev_spk, entry, ret>>

\* Tensor.max(0) of a tensor with no element raises; which exception
\* depends on the version of torch
EmptyMaxErrors == {"RuntimeError", "IndexError"}

\* lines 1246-1251: <eos> is among the top-k tokens of the hypothesis, the
\* hypothesis is long enough, and scores_att[j, :idx] or
\* scores_att[j, idx + 1:] has no element
EosSliceEmpty(beam, row, T) ==
    /\ eos = 0 \/ eos = VocabSize - 1
    /\ \E k \in 1 .. beam_width : TopK(row, beam_width)[k] = eos
    /\ ~(WDen * (Len(beam.hyp) - 1) < T * cfg.min_len_ratio)

\* one iteration of `for t in range(ymax)`, lines 1114-1292
BeamStep ==
    /\ pc = "bs_step"
    /\ IF hyps = <<>>
       THEN Raise("RuntimeError")      \* torch.cat of an empty list, line 1123
       ELSE IF \E j \in 1 .. Len(hyps) : hyps[j].dstates = <<None>>
       THEN Raise("TypeError")         \* beam['dstates'] is None, line 1125
       ELSE IF rnn_type # "lstm"
       THEN Raise("UnboundLocalError") \* cxs was never assigned, line 1128
       ELSE IF n_models > 1
       THEN RaiseInStep({"KeyError"}, net)   \* beam['dstates'][i_e], line 1173
       ELSE \E m \in Extend(net, {KeyOf(b, LastOf(hyps[j].hyp)) : j \in 1 .. Len(hyps)}) :
            IF \E j \in 1 .. Len(hyps) :
                  EosSliceEmpty(hyps[j], RowOf(m, b, LastOf(hyps[j].hyp)), cfg.elens[b])
            THEN RaiseInStep(EmptyMaxErrors, m)     \* lines 1250-1251
            ELSE
            LET new_hyps_sorted == LocalPruning(NewHyps(hyps, m, b))
                r == RemoveCompleteHyp(new_hyps_sorted, end_hyps)
            IN /\ net' = m
               /\ hyps' = r.new_hyps
               /\ end_hyps' = r.end_hyps
               /\ nsteps' = nsteps + 1
               /\ IF r.is_finish \/ t + 1 = Ymax(cfg.elens[b])
                  THEN pc' = "bs_finish" /\ t' = t
                  ELSE pc' = "bs_step" /\ t' = t + 1
               /\ UNCHANGED <<hyps_nobd, chunk, ignore_eos, n_frames, cfg, fvars, score_resets, nbest, calls, b, hyps_batch, ylens, g_eos_flags,
                              nbest_hyps_idx, scores, eos_flags, aws, dstates_final,
                              lmstate_final, prev_spk, entry, ret, err>>

\* global pruning, lines 1294-1298
GlobalPruning(ends, hs) ==
    IF Len(ends) = 0 THEN hs
    ELSE IF Len(ends) < nbest /\ nbest > 1 THEN ends \o Take(hs, nbest - Len(ends))
    ELSE ends

\* a returned score that is the total score of the entry
ReturnedScoreTotal(h) == <<h.score[1], h.score[2] * WDen>>

\* the score returned for an entry, lines 1344-1347: <<n, d>> stands for n / d
ReturnedScore(h) ==
    <<h.score_att, IF cfg.scoring.length_norm THEN Len(Tail(h.hyp)) ELSE 1>>

\* a final step that leaves the list in the order of completion
FinalSortNone(ends) == ends

\* sort by score, line 1309
FinalSort(ends) == SortedByScore(ends)

\* lines 1294-1350: the N-best list of utterance b
BeamFinishUtt ==
    /\ pc = "bs_finish"
    /\ LET sorted == FinalSort(GlobalPruning(end_hyps, hyps))
       IN IF Len(sorted) < nbest
          THEN Raise("IndexError")
          ELSE /\ end_hyps' = sorted
               /\ nbest_hyps_idx' = Append(nbest_hyps_idx,
                                      [n \in 1 .. nbest |->
                                          IF bwd THEN Reverse(Tail(sorted[n].hyp))
                                          ELSE Tail(sorted[n].hyp)])
               /\ scores' = Append(scores, [n \in 1 .. nbest |-> ReturnedScore(sorted[n])])
               /\ eos_flags' = Append(eos_flags,
                                      [n \in 1 .. nbest |-> LastOf(sorted[n].hyp) = eos])
               /\ aws' = Append(aws, IF bwd THEN Reverse(Tail(sorted[1].aws))
                                      ELSE Tail(sorted[1].aws))
               /\ IF b < bs
                  THEN pc' = "bs_utt" /\ b' = b + 1
                  ELSE pc' = "bs_return" /\ b' = b
               /\ UNCHANGED <<hyps_nobd, chunk, ignore_eos, n_frames, cfg, fvars, score_resets, net, nbest, calls, t, nsteps, hyps, hyps_batch, ylens,
                              g_eos_flags, dstates_final, lmstate_final, prev_spk,
                              entry, ret, err>>

\* exclude_eos of lines 1352-1359
ExcludeEos(idx, flags) ==
    [u \in 1 .. Len(idx) |-> [n \in 1 .. Len(idx[u]) |->
        IF flags[u][n]
        THEN (IF bwd THEN Tail(idx[u][n]) ELSE Front(idx[u][n]))
        ELSE idx[u][n]]]

\* lines 1352-1377
BeamReturn ==
    /\ pc = "bs_return"
    /\ dstates_final' = end_hyps[1].dstates
    /\ lmstate_final' = IF cfg.scoring.lm_weight > 0 THEN end_hyps[1].lmstate
                        ELSE lmstate_final
    /\ \E exclude_eos \in BOOLEAN :
         ret' = [ret EXCEPT !.beam =
                   [status |-> "returned",
                    exclude_eos |-> exclude_eos,
                    hyps |-> IF exclude_eos THEN ExcludeEos(nbest_hyps_idx, eos_flags)
                             ELSE nbest_hyps_idx,
                    aws |-> aws,
                    scores |-> scores,
                    dstates |-> end_hyps[1].dstates]]
    /\ pc' = "idle"
    /\ ResetLocals
    /\ UNCHANGED <<n_frames, cfg, fvars, score_resets, net, nbest, calls, nsteps, prev_spk, entry, err>>

\* ------------------------------------------------------------ greedy
\* self.output(attn_v).argmax(-1)
ArgMax(row) == TopK(row, 1)[1]

\* the token fed to the next step for item u: the previous 1-best, <eos> first
PrevToken(hb, u) == IF hb[u] = <<>> THEN eos ELSE LastOf(hb[u])

\* lines 877-900 (discourse_aware is off, self.lm is None)
CallGreedy ==
    /\ pc = "idle"
    /\ score_resets' = score_resets + 1      \* self.score.reset(), line 886
    /\ calls < MaxCalls
    /\ calls' = calls + 1
    /\ entry' = StoredState
    /\ hyps_batch' = [u \in 1 .. bs |-> <<>>]
    /\ ylens' = [u \in 1 .. bs |-> 0]
    /\ g_eos_flags' = [u \in 1 .. bs |-> FALSE]
    /\ t' = 0
    /\ nsteps' = 0
    /\ pc' = "g_step"
    /\ UNCHANGED <<hyps_nobd, chunk, ignore_eos, n_frames, cfg, fvars, net, nbest, b, hyps, end_hyps, nbest_hyps_idx, scores, eos_flags, aws,
                   dstates_final, lmstate_final, prev_spk, ret, err>>

\* one iteration of `for t in range(ymax)`, lines 901-932
GreedyStep ==
    /\ pc = "g_step"
    /\ \E m \in Extend(net, {KeyOf(u, PrevToken(hyps_batch, u)) : u \in 1 .. bs}) :
        LET y == [u \in 1 .. bs |-> ArgMax(RowOf(m, u, PrevToken(hyps_batch, u)))]
            flags == [u \in 1 .. bs |-> g_eos_flags[u] \/ y[u] = eos]
        IN /\ net' = m
           /\ hyps_batch' = [u \in 1 .. bs |-> Append(hyps_batch[u], y[u])]
           /\ ylens' = [u \in 1 .. bs |-> IF g_eos_flags[u] THEN ylens[u] ELSE ylens[u] + 1]
           /\ g_eos_flags' = flags
           /\ nsteps' = nsteps + 1
           /\ IF (\A u \in 1 .. bs : flags[u]) \/ t = Ymax(xmax) - 1
              THEN pc' = "g_return" /\ t' = t
              ELSE pc' = "g_step" /\ t' = t + 1
    /\ UNCHANGED <<hyps_nobd, chunk, ignore_eos, n_frames, cfg, fvars, score_resets, nbest, calls, b, hyps, end_hyps, nbest_hyps_idx, scores, eos_flags, aws,
                   dstates_final, lmstate_final, prev_spk, entry, ret, err>>

\* a truncation that keeps everything generated
TruncateNothing(hyp, ylen) == hyp

\* hyps[b, :ylens[b]], lines 948-966: the tokens up to the first <eos>
Truncate(hyp, ylen) == Take(hyp, ylen)

\* an exclusion that drops the last token of every item
GreedyExcludeEosAlways(hyp, flag) == Front(hyp)

\* hyps[b][:-1] if eos_flags[b] else hyps[b], lines 961-966
GreedyExcludeEos(hyp, flag) ==
    IF flag THEN (IF bwd THEN Tail(hyp) ELSE Front(hyp)) ELSE hyp

\* aws_batch[b] after torch.cat(aws_batch, dim=2), line 949: `[H, L, T]`,
\* one head, the attention of step p being that of the row the step read
AwsBatch(u) ==
    <<[p \in 1 .. Len(hyps_batch[u]) |->
         RowOf(net, u, IF p = 1 THEN eos ELSE hyps_batch[u][p - 1]).aw]>>

\* aws_batch[b, :, :ylens[b]], lines 955 and 958
TruncateAws(a, ylen) == [h \in 1 .. Len(a) |-> Take(a[h], ylen)]

\* lines 934-979
GreedyReturn ==
    /\ pc = "g_return"
    /\ lmstate_final' = <<None>>
    /\ \E exclude_eos \in BOOLEAN :
         LET cut == [u \in 1 .. bs |-> Truncate(hyps_batch[u], ylens[u])]
             order == [u \in 1 .. bs |-> IF bwd THEN Reverse(cut[u]) ELSE cut[u]]
             cut_aws == [u \in 1 .. bs |-> TruncateAws(AwsBatch(u), ylens[u])]
         IN ret' = [ret EXCEPT !.greedy =
                      [status |-> "returned",
                       exclude_eos |-> exclude_eos,
                       hyps |-> [u \in 1 .. bs |->
                                   IF exclude_eos
                                   THEN GreedyExcludeEos(order[u], g_eos_flags[u])
                                   ELSE order[u]],
                       aws |-> [u \in 1 .. bs |->
                                  IF bwd THEN Reverse(cut_aws[u]) ELSE cut_aws[u]]]]
    /\ pc' = "idle"
    /\ ResetLocals
    /\ UNCHANGED <<n_frames, cfg, fvars, score_resets, net, nbest, calls, nsteps, dstates_final, prev_spk, entry, err>>

\* ------------------------------------------------ beam_search_chunk_sync
\* the chunk is a chunk of utterance 1: eouts_c has cfg.elens[1] frames
chunk_size == cfg.elens[1]

\* the hypothesis that extends beam by its k-th best token, lines 1503-1557
ChunkCandidate(beam, row, k, no_boundary) ==
    LET sc == cfg.scoring
        idx == TopK(row, beam_width)[k]
        len == Len(beam.hyp) - 1
        total_att == beam.score_att + AttOf(row, idx)
        total_lm == IF sc.lm_weight > 0
                    THEN beam.score_lm + LmRow(LastOf(beam.hyp))[idx] ELSE 0
        s1 == <<total_att * (WDen - sc.ctc_weight) + total_lm * sc.lm_weight, 1>>
        s2 == <<s1[1] + (len + 1) * sc.lp_weight, 1>>
        ctc == AddCtcScore(beam, idx, s2)
    IN [hyp |-> beam.hyp \o <<idx>>,
        score |-> <<ctc.fused[1], ctc.fused[2] * LengthNormFactor(beam)>>,
        score_att |-> total_att,
        score_cp |-> 0,
        score_ctc |-> ctc.ctc,
        score_lm |-> total_lm,
        dstates |-> beam.hyp,
        lmstate |-> IF sc.lm_weight > 0 THEN beam.hyp ELSE <<None>>,
        aws |-> beam.aws \o <<row.aw>>,
        no_boundary |-> no_boundary]

\* beam['aws'][-1] = zeros; beam['no_boundary'] = True
Flagged(beam) == [beam EXCEPT !.aws = Front(beam.aws) \o <<0>>, !.no_boundary = TRUE]

\* a loop over the top-k tokens that skips none of them
SuppressedNever(no_boundary, idx) == FALSE

\* `if no_boundary and idx != self.eos: continue`, lines 1526-1527
Suppressed(no_boundary, idx) == no_boundary /\ idx # eos

\* what one hypothesis appends to new_hyps, lines 1494-1557
RECURSIVE ChunkExpandFrom(_, _, _, _)
ChunkExpandFrom(beam, row, k, no_boundary) ==
    IF k > beam_width THEN <<>>
    ELSE LET idx == TopK(row, beam_width)[k]
             rest == ChunkExpandFrom(beam, row, k + 1, no_boundary)
         IN IF Suppressed(no_boundary, idx) THEN rest
            ELSE IF idx = eos /\ ignore_eos THEN <<Flagged(beam)>> \o rest
            ELSE IF idx = eos /\ WDen * AttOf(row, eos) <= cfg.eos_threshold * MaxNoEos(row, eos)
                 THEN rest
            ELSE <<ChunkCandidate(IF no_boundary THEN Flagged(beam) ELSE beam,
                                  row, k, no_boundary)>> \o rest

ChunkExpand(beam, row) ==
    LET no_boundary == row.aw = 0
    IN (IF no_boundary THEN <<Flagged(beam)>> ELSE <<>>)
       \o ChunkExpandFrom(beam, row, 1, no_boundary)

\* the hypotheses handed to a later chunk call, lines 1441-1443
CarriedHyps(hs) == [j \in 1 .. Len(hs) |-> [hs[j] EXCEPT !.no_boundary = FALSE]]

\* lines 1382-1445; hyps is None on the first chunk of an utterance, else
\* the active beam the previous chunk call returned
CallChunkSync ==
    /\ pc = "idle"
    /\ score_resets' = score_resets + 1      \* self.score.reset(), line 1400
    /\ calls < MaxCalls
    /\ calls' = calls + 1
    /\ entry' = StoredState
    /\ ignore_eos' \in BOOLEAN
    /\ \E first \in BOOLEAN :
        /\ ~first => ret.chunk # NotCalled
        /\ IF ~first /\ cfg.scoring.ctc_weight > 0
           THEN /\ pc' = "error"
                /\ err' = "AttributeError"
                /\ UNCHANGED <<hyps, chunk, n_frames>>
           ELSE /\ pc' = "cs_step"
                /\ err' = err
                /\ hyps' = IF first THEN <<InitHyp>> ELSE CarriedHyps(ret.chunk.hyps)
                /\ chunk' = IF first THEN 0 ELSE ret.chunk.chunk + 1
                /\ n_frames' = IF first THEN 0 ELSE n_frames
    /\ end_hyps' = <<>>
    /\ hyps_nobd' = <<>>
    /\ t' = 0
    /\ nsteps' = 0
    /\ UNCHANGED <<cfg, fvars, net, nbest, b, hyps_batch, ylens, g_eos_flags, nbest_hyps_idx,
                   scores, eos_flags, aws, dstates_final, lmstate_final, prev_spk, ret>>

\* a filter that passes every hypothesis on to the decoding step
HypsFilteredAll(hs) == hs

\* hyps_filtered, lines 1455-1464: the hypotheses that are decoded
HypsFiltered(hs) == SelectSeq(hs, LAMBDA h : ~h.no_boundary)

\* one iteration of `for t in range(ymax)`, lines 1446-1567
ChunkStep ==
    /\ pc = "cs_step"
    /\ IF HypsFiltered(hyps) # <<>> /\ rnn_type # "lstm"
       THEN Raise("UnboundLocalError")     \* cxs was never assigned, line 1475
       ELSE
           /\ LET idxs == 1 .. Len(hyps)
                  set_aside == SelectSeq(hyps, LAMBDA h : h.no_boundary)
                  hyps_filtered == HypsFiltered(hyps)
              IN IF \/ Len(hyps) = 0
                    \/ t > 0 /\ \A j \in idxs : hyps[j].no_boundary
                    \/ Len(hyps_filtered) = 0
                 THEN /\ pc' = "cs_return"
                      /\ UNCHANGED <<net, t, nsteps, hyps, end_hyps, hyps_nobd>>
                 ELSE \E m \in Extend(net, {KeyOf(1 + chunk, LastOf(hyps_filtered[j].hyp)) :
                                               j \in 1 .. Len(hyps_filtered)}) :
                      LET new_hyps == set_aside \o Flatten([j \in 1 .. Len(hyps_filtered) |->
                                          ChunkExpand(hyps_filtered[j],
                                              RowOf(m, 1 + chunk, LastOf(hyps_filtered[j].hyp)))])
                          new_hyps_sorted == SortedByScore(new_hyps)
                          r == RemoveCompleteHyp(Take(new_hyps_sorted, beam_width), end_hyps)
                      IN /\ net' = m
                         /\ hyps_nobd' = hyps_nobd \o SelectSeq(Drop(new_hyps_sorted, beam_width),
                                                                LAMBDA h : h.no_boundary)
                         /\ hyps' = r.new_hyps
                         /\ end_hyps' = r.end_hyps
                         /\ nsteps' = nsteps + 1
                         /\ IF r.is_finish \/ t + 1 = Ymax(chunk_size)
                            THEN pc' = "cs_return" /\ t' = t
                            ELSE pc' = "cs_step" /\ t' = t + 1
           /\ UNCHANGED <<cfg, fvars, score_resets, nbest, calls, b, chunk, ignore_eos, n_frames, hyps_batch, ylens,
                          g_eos_flags, nbest_hyps_idx, scores, eos_flags, aws, dstates_final,
                          lmstate_final, prev_spk, entry, ret, err>>

\* global pruning, lines 1569-1571: the active beam the call returns
MergedBeam == Take(hyps \o SortedByScore(hyps_nobd), beam_width)

\* lines 1569-1598
ChunkReturn ==
    /\ pc = "cs_return"
    /\ LET merged == MergedBeam
           ends == SortedByScore(end_hyps)
       IN /\ ret' = [ret EXCEPT !.chunk =
                       [status |-> "returned", end_hyps |-> ends, hyps |-> merged,
                        chunk |-> chunk, ignore_eos |-> ignore_eos]]
          /\ dstates_final' = IF Len(ends) > 0 THEN ends[1].dstates ELSE dstates_final
          /\ lmstate_final' = IF Len(ends) > 0 THEN ends[1].lmstate ELSE lmstate_final
    /\ n_frames' = n_frames + chunk_size
    /\ pc' = "idle"
    /\ ResetLocals
    /\ UNCHANGED <<cfg, fvars, score_resets, net, nbest, calls, nsteps, prev_spk, entry, err>>

Next ==
    \/ CallGreedy
    \/ GreedyStep
    \/ GreedyReturn
    \/ CallBeamSearch
    \/ BeamUtt
    \/ BeamStep
    \/ BeamFinishUtt
    \/ BeamReturn
    \/ CallChunkSync
    \/ ChunkStep
    \/ ChunkReturn

Spec == Init /\ [][Next]_vars

\* ------------------------------------------------ forward_att
\* ylens of append_sos_eos: the reference plus <eos>
ylens_att(u) == Len(cfg.ys[u]) + 1

\* ymax = ys_in.size(1), line 579
ymax_att == SeqMax([u \in 1 .. bs |-> ylens_att(u)])

PadTo(seq, n) == seq \o [i \in 1 .. (n - Len(seq)) |-> pad]

\* append_sos_eos, line 578: <sos> is self.eos
ys_in(u) == PadTo(<<eos>> \o cfg.ys[u], ymax_att)

ys_out(u) == PadTo(cfg.ys[u] \o <<eos>>, ymax_att)

\* self.zero_state(bs): the state of a decoder that was fed nothing
zero_state == [u \in 1 .. bs |-> <<>>]

\* the outputs of a training step: 1-best <eos> and 1-best token 0
LogitRows == {r \in Rows : r.aw = 1 /\ AttOf(r, 2) = -3}

\* the tables that extend f by an output for every decoder state of keys
\* that has none
ExtendF(f, keys) ==
    LET missing == keys \ DOMAIN f
    IN {[k \in DOMAIN f \cup keys |-> IF k \in missing THEN rows[k] ELSE f[k]] :
            rows \in [missing -> LogitRows]}

\* a pass that takes up the stored state in every mode
CarryOverAnyMode == cfg.discourse_aware /\ ~new_session

\* lines 583-584: the pass starts from self.dstate_prev
CarryOver == cfg.training /\ cfg.discourse_aware /\ ~new_session

\* the caller opens a new session: self.new_session = True
ResetSession ==
    /\ pc = "idle"
    /\ cfg.discourse_aware
    /\ ~new_session
    /\ new_session' = TRUE
    /\ UNCHANGED <<cfg, net, nbest, pc, calls, b, t, nsteps, hyps, end_hyps,
                   hyps_nobd, chunk, ignore_eos, n_frames, score_resets,
                   hyps_batch, ylens, g_eos_flags, nbest_hyps_idx, scores, eos_flags,
                   aws, dstates_final, lmstate_final, prev_spk, entry, ret, err,
                   dstate_prev, fwd, fwd_ret, fnet, lvars, evars>>

\* lines 577-596
CallForward ==
    /\ pc = "idle"
    /\ calls < MaxCalls
    /\ IF CarryOver /\ dstate_prev = <<>>
       THEN Raise("TypeError")              \* self.dstate_prev['hxs'], line 585
       ELSE LET start == IF CarryOver THEN dstate_prev ELSE zero_state
            IN /\ calls' = calls + 1
               /\ dstate_prev' = IF cfg.training THEN [u \in 1 .. bs |-> <<None>>]
                                 ELSE dstate_prev
               /\ new_session' = IF cfg.training THEN FALSE ELSE new_session
               /\ score_resets' = score_resets + 1
               /\ fwd' = [t |-> 0, start |-> start, dstates |-> start,
                          logits |-> [u \in 1 .. bs |-> <<>>],
                          is_sample |-> <<>>, n_draws |-> 0]
               /\ pc' = "f_step"
               /\ UNCHANGED <<cfg, net, nbest, b, t, nsteps, hyps, end_hyps,
                              hyps_nobd, chunk, ignore_eos, n_frames,
                              hyps_batch, ylens, g_eos_flags, nbest_hyps_idx, scores,
                              eos_flags, aws, dstates_final, lmstate_final, prev_spk,
                              entry, ret, err, fwd_ret, fnet, lvars, evars>>

\* a decision that may fall on position 0
DrawnFromStart(p) == cfg.ss_prob > 0

\* line 599: random.random() is called when t > 0 and self._ss_prob > 0
Drawn(p) == p > 0 /\ cfg.ss_prob > 0

\* the outcomes of random.random() < self._ss_prob
Coins(p) == IF ~Drawn(p) THEN {FALSE}
            ELSE IF cfg.ss_prob = WDen THEN {TRUE} ELSE BOOLEAN

\* a snapshot taken at the padded end of the batch
AtPaddedEnd(p, u) == p = ymax_att - 1

\* `if t == ylen - 1`, line 620: step p is the last position of item u
AtLastPosition(p, u) == p = ylens_att(u) - 1

\* one iteration of `for t in range(ymax)`, lines 598-623
ForwardStep ==
    /\ pc = "f_step"
    /\ \E coin \in Coins(fwd.t) :
        LET is_sample == Drawn(fwd.t) /\ coin
        IN IF is_sample /\ fwd.t = 0
           THEN Raise("IndexError")             \* logits[-1] of an empty list
           ELSE
        LET y == [u \in 1 .. bs |->
                    IF is_sample THEN ArgMax(LastOf(fwd.logits[u]))
                    ELSE ys_in(u)[fwd.t + 1]]
            dstates == [u \in 1 .. bs |-> Append(fwd.dstates[u], y[u])]
        IN \E m \in ExtendF(fnet, {<<u, dstates[u]>> : u \in 1 .. bs}) :
            /\ fnet' = m
            /\ fwd' = [fwd EXCEPT !.t = fwd.t + 1,
                                  !.dstates = dstates,
                                  !.logits = [u \in 1 .. bs |->
                                                Append(fwd.logits[u], m[<<u, dstates[u]>>])],
                                  !.is_sample = Append(fwd.is_sample, is_sample),
                                  !.n_draws = fwd.n_draws + IF Drawn(fwd.t) THEN 1 ELSE 0]
            /\ dstate_prev' = IF cfg.training /\ cfg.discourse_aware
                              THEN [u \in 1 .. bs |->
                                      IF AtLastPosition(fwd.t, u) THEN dstates[u]
                                      ELSE dstate_prev[u]]
                              ELSE dstate_prev
            /\ pc' = IF fwd.t + 1 = ymax_att THEN "f_return" ELSE "f_step"
            /\ UNCHANGED <<cfg, net, nbest, calls, b, t, nsteps, hyps, end_hyps,
                           hyps_nobd, chunk, ignore_eos, n_frames, score_resets,
                           hyps_batch, ylens, g_eos_flags, nbest_hyps_idx, scores,
                           eos_flags, aws, dstates_final, lmstate_final, prev_spk,
                           entry, ret, err, new_session, fwd_ret, lvars, evars>>

\* cross_entropy_lsm without label smoothing, line 651: the negated
\* log-probabilities of the reference tokens, padded positions left out
XeLoss(logits) ==
    SumSeq([u \in 1 .. bs |->
              SumSeq([p \in 1 .. ylens_att(u) |-> 0 - AttOf(logits[u][p], ys_out(u)[p])])])

\* lines 625-708
ForwardReturn ==
    /\ pc = "f_return"
    /\ fwd_ret' = Append(fwd_ret, [logits |-> fwd.logits, loss |-> XeLoss(fwd.logits),
                                   start |-> fwd.start, dstates |-> fwd.dstates,
                                   is_sample |-> fwd.is_sample, n_draws |-> fwd.n_draws])
    /\ fwd' = NoFwd
    /\ pc' = "idle"
    /\ UNCHANGED <<cfg, net, nbest, calls, b, t, nsteps, hyps, end_hyps,
                   hyps_nobd, chunk, ignore_eos, n_frames, score_resets,
                   hyps_batch, ylens, g_eos_flags, nbest_hyps_idx, scores,
                   eos_flags, aws, dstates_final, lmstate_final, prev_spk,
                   entry, ret, err, new_session, dstate_prev, fnet, lvars, evars>>

\* ------------------------------------------------ forward
\* exact fractions <<n, d>> with d > 0, in lowest terms
RECURSIVE Gcd(_, _)
Gcd(x, y) == IF y = 0 THEN x ELSE Gcd(y, x % y)

Abs(x) == IF x < 0 THEN 0 - x ELSE x

Q(n, d) == LET g == Gcd(Abs(n), d) IN <<n \div g, d \div g>>

QAdd(x, y) == Q(x[1] * y[2] + y[1] * x[2], x[2] * y[2])

QSub(x, y) == Q(x[1] * y[2] - y[1] * x[2], x[2] * y[2])

QMul(x, y) == Q(x[1] * y[1], x[2] * y[2])

RECURSIVE QSum(_)
QSum(seq) == IF seq = <<>> THEN <<0, 1>> ELSE QAdd(seq[1], QSum(Tail(seq)))

\* self.att_weight = global_weight - ctc_weight, line 154
att_weight == cfg.global_weight - cfg.ctc_weight

\* 'ctc' in task, 'mbr' in task
InTask(word, task) == task = "ys." \o word

\* the values a loss of a batch can take
LossVals == {1, 2}

\* exp(log_scores[n]) of the hypotheses beam_search returns
ExpScores == {1, 2}

\* compute_wer(...)[0], in percent
Wers == {0, 50, 100}

\* line 393: the CTC loss is computed
CtcSelected == cfg.ctc_weight > 0 /\ (cfg.task = "all" \/ InTask("ctc", cfg.task))

\* line 404
XeSelected == att_weight > 0 /\ (cfg.task = "all" \/ ~InTask("ctc", cfg.task)) /\ ~cfg.mbr

\* line 427
MbrSelected == cfg.mbr /\ (cfg.task = "all" \/ ~InTask("mbr", cfg.task))

\* loss += l (mtl_per_batch) or loss += l * w, lines 398-401 and 421-424
Weighted(l, w) == IF cfg.mtl_per_batch THEN <<l, 1>> ELSE Q(l * w, WDen)

\* lines 389-401: entry and CTC loss
CallForwardLoss ==
    /\ pc = "idle"
    /\ calls < MaxCalls
    /\ calls' = calls + 1
    /\ \E loss_ctc \in IF CtcSelected THEN LossVals ELSE {None} :
         fw' = [b |-> 0,
                loss |-> IF CtcSelected THEN Weighted(loss_ctc, cfg.ctc_weight) ELSE <<0, 1>>,
                observation |-> [loss |-> <<None>>, loss_att |-> <<None>>,
                                 loss_ctc |-> loss_ctc, loss_mbr |-> <<None>>],
                loss_mbr |-> <<0, 1>>, loss_ce |-> 0,
                exp_scores_b |-> <<>>, scores_b_norm |-> <<>>, wers_b |-> <<>>,
                exp_wer_b |-> <<None>>, grad_b |-> <<None>>]
    /\ fw_ret' = NotCalled
    /\ pc' = "l_att"
    /\ UNCHANGED <<cfg, net, nbest, b, t, nsteps, hyps, end_hyps,
                   hyps_nobd, chunk, ignore_eos, n_frames, score_resets,
                   hyps_batch, ylens, g_eos_flags, nbest_hyps_idx, scores, eos_flags,
                   aws, dstates_final, lmstate_final, prev_spk, entry, ret, err,
                   new_session, dstate_prev, fwd, fwd_ret, fnet, evars, training>>

\* lines 403-424: XE loss; the quantity and latency terms are part of the
\* value drawn for loss_att
ForwardXe ==
    /\ pc = "l_att"
    /\ \E loss_att \in IF XeSelected THEN LossVals ELSE {None} :
         fw' = IF XeSelected
               THEN [fw EXCEPT !.loss = QAdd(fw.loss, Weighted(loss_att, att_weight)),
                               !.observation.loss_att = <<loss_att, 1>>]
               ELSE fw
    /\ pc' = IF MbrSelected THEN "l_mbr" ELSE "l_return"
    /\ UNCHANGED <<cfg, net, nbest, calls, b, t, nsteps, hyps, end_hyps,
                   hyps_nobd, chunk, ignore_eos, n_frames, score_resets,
                   hyps_batch, ylens, g_eos_flags, nbest_hyps_idx, scores, eos_flags,
                   aws, dstates_final, lmstate_final, prev_spk, entry, ret, err,
                   new_session, dstate_prev, fwd, fwd_ret, fnet, evars, training, fw_ret>>

\* weights that are the exponentials themselves
SoftmaxUnnormalised(es) == [n \in 1 .. Len(es) |-> <<es[n], 1>>]

\* torch.softmax(alpha * log_scores_b) with alpha = 1, line 441, for the
\* scores whose exponentials are es
Softmax(es) == [n \in 1 .. Len(es) |-> Q(es[n], SumSeq(es))]

\* an expected error rate that weighs every hypothesis alike
ExpWerUnweighted(ps, ws) == Q(SumSeq(ws), 100 * Len(ws))

\* (scores_b_norm * wers_b).sum(), line 448; wers in percent are divided by
\* 100 at line 447
ExpWer(ps, ws) == QSum([n \in 1 .. Len(ps) |-> QMul(ps[n], Q(ws[n], 100))])

\* (scores_b_norm * (wers_b - exp_wer_b)).sum(), line 449
Grad(ps, ws, e) ==
    QSum([n \in 1 .. Len(ps) |-> QMul(ps[n], QSub(Q(ws[n], 100), e))])

\* one iteration of `for b in range(bs)`, lines 433-477: beam_search returns
\* k hypotheses for the item; MBR.apply returns the expected risk
MbrItem ==
    /\ pc = "l_mbr"
    /\ fw.b < bs
    /\ IF att_weight = 0
       THEN Raise("AttributeError")         \* self.score of line 1052 was never built
       ELSE \E k \in 1 .. cfg.n_best :
            IF k < cfg.n_best
            THEN /\ pc' = "error"            \* nbest_hyps_id_b[n], line 446
                 /\ err' = "IndexError"
                 /\ training' = FALSE        \* self.eval(), line 434
                 /\ UNCHANGED <<cfg, net, nbest, calls, b, t, nsteps, hyps, end_hyps,
                                hyps_nobd, chunk, ignore_eos, n_frames, score_resets,
                                hyps_batch, ylens, g_eos_flags, nbest_hyps_idx, scores,
                                eos_flags, aws, dstates_final, lmstate_final, prev_spk,
                                entry, ret, new_session, dstate_prev, fwd, fwd_ret,
                                fnet, evars, fw, fw_ret>>
            ELSE \E es \in [1 .. k -> ExpScores], ws \in [1 .. k -> Wers], ce \in LossVals :
                 LET ps == Softmax(es)
                     e == ExpWer(ps, ws)
                 IN /\ fw' = [fw EXCEPT !.b = fw.b + 1,
                                        !.exp_scores_b = es,
                                        !.scores_b_norm = ps,
                                        !.wers_b = ws,
                                        !.exp_wer_b = e,
                                        !.grad_b = Grad(ps, ws, e),
                                        !.loss_mbr = QAdd(fw.loss_mbr, e),
                                        !.loss_ce = fw.loss_ce + ce]
                    /\ training' = TRUE      \* self.train(), line 454
                    /\ UNCHANGED <<cfg, net, nbest, pc, calls, b, t, nsteps, hyps, end_hyps,
                                   hyps_nobd, chunk, ignore_eos, n_frames, score_resets,
                                   hyps_batch, ylens, g_eos_flags, nbest_hyps_idx, scores,
                                   eos_flags, aws, dstates_final, lmstate_final, prev_spk,
                                   entry, ret, err, new_session, dstate_prev, fwd, fwd_ret,
                                   fnet, evars, fw_ret>>

\* lines 479-482, after the loop
MbrDone ==
    /\ pc = "l_mbr"
    /\ fw.b = bs
    /\ fw' = [fw EXCEPT !.loss = QAdd(fw.loss_mbr, Q(fw.loss_ce * cfg.mbr_ce_weight, WDen)),
                        !.observation.loss_mbr = fw.loss_mbr,
                        !.observation.loss_att = <<fw.loss_ce, 1>>]
    /\ pc' = "l_return"
    /\ UNCHANGED <<cfg, net, nbest, calls, b, t, nsteps, hyps, end_hyps,
                   hyps_nobd, chunk, ignore_eos, n_frames, score_resets,
                   hyps_batch, ylens, g_eos_flags, nbest_hyps_idx, scores, eos_flags,
                   aws, dstates_final, lmstate_final, prev_spk, entry, ret, err,
                   new_session, dstate_prev, fwd, fwd_ret, fnet, evars, training, fw_ret>>

\* lines 484-485
LossReturn ==
    /\ pc = "l_return"
    /\ fw_ret' = [status |-> "returned", loss |-> fw.loss,
                  observation |-> [fw.observation EXCEPT !.loss = fw.loss],
                  loss_ce |-> fw.loss_ce]
    /\ fw' = NoFw
    /\ pc' = "idle"
    /\ UNCHANGED <<cfg, net, nbest, calls, b, t, nsteps, hyps, end_hyps,
                   hyps_nobd, chunk, ignore_eos, n_frames, score_resets,
                   hyps_batch, ylens, g_eos_flags, nbest_hyps_idx, scores, eos_flags,
                   aws, dstates_final, lmstate_final, prev_spk, entry, ret, err,
                   new_session, dstate_prev, fwd, fwd_ret, fnet, evars, training>>

\* ------------------------------------------------ do_eval_cer
HESITATIONS == {"uh", "um", "eh", "mm", "hm", "ah", "huh", "ha", "er", "oof",
                "hee", "ach", "eee", "ew"}
LAUGHTER == "LA"
NOISE == "NZ"
VOCALIZED_NOISE == "VN"
HESITATION == "%hesitation"

\* the words str.split('_') can yield for a transcript
Words == {"", "a", "uh", NOISE, HESITATION}

\* str.split('_') of a transcript: at least one, possibly empty, word
WordLists == UNION {[1 .. l -> Words] : l \in 1 .. MaxW}

\* `while '' in word_list: word_list.remove('')`
RECURSIVE RemoveEmpty(_)
RemoveEmpty(ws) ==
    IF ws = <<>> THEN <<>>
    ELSE IF ws[1] = "" THEN RemoveEmpty(Tail(ws))
    ELSE <<ws[1]>> \o RemoveEmpty(Tail(ws))

\* a reference that keeps the non-speech tokens
FilterTrueNothing(ws) == RemoveEmpty(ws)

\* lines 101-106: the reference without NOISE, LAUGHTER, VOCALIZED_NOISE,
\* HESITATION
FilterTrue(ws) ==
    RemoveEmpty([i \in 1 .. Len(ws) |->
                   IF ws[i] \in {NOISE, LAUGHTER, VOCALIZED_NOISE, HESITATION}
                   THEN "" ELSE ws[i]])

\* lines 124-136: the hypothesis with hesitations mapped to HESITATION, then
\* the words of HESITATIONS, NOISE, LAUGHTER and VOCALIZED_NOISE removed
FilterPred(ws) ==
    LET mapped == [i \in 1 .. Len(ws) |->
                     IF ws[i] \in HESITATIONS THEN HESITATION ELSE ws[i]]
    IN RemoveEmpty([i \in 1 .. Len(mapped) |->
                      IF mapped[i] \in HESITATIONS THEN ""
                      ELSE IF mapped[i] \in {NOISE, LAUGHTER, VOCALIZED_NOISE} THEN ""
                      ELSE mapped[i]])

Min2(x, y) == IF x <= y THEN x ELSE y

\* the edit distance of two sequences
RECURSIVE EditDistance(_, _)
EditDistance(x, y) ==
    IF x = <<>> THEN Len(y)
    ELSE IF y = <<>> THEN Len(x)
    ELSE Min2(Min2(EditDistance(Tail(x), y) + 1, EditDistance(x, Tail(y)) + 1),
              EditDistance(Tail(x), Tail(y)) + IF x[1] = y[1] THEN 0 ELSE 1)

\* compute_wer(ref, hyp, normalize=True): the distance over len(ref)
compute_wer(ref, hyp) == Q(EditDistance(ref, hyp), Len(ref))

\* '_'.join(words), a word standing for its characters
RECURSIVE Join(_)
Join(ws) == IF Len(ws) <= 1 THEN ws ELSE <<ws[1], "_">> \o Join(Tail(ws))

\* compute_cer(ref='_'.join(...), hyp='_'.join(...), normalize=True)
compute_cer(ref, hyp) == Q(EditDistance(Join(ref), Join(hyp)), Len(Join(ref)))

\* lines 44-62
CallEvalCer ==
    /\ pc = "idle"
    /\ calls < MaxCalls
    /\ calls' = calls + 1
    /\ ev' = [i |-> 0, cer_mean |-> <<0, 1>>, wer_mean |-> <<0, 1>>, skip_utt_num |-> 0,
              word_list_true |-> <<>>, word_list_pred |-> <<>>]
    /\ ev_ret' = NotCalled
    /\ pc' = "e_utt"
    /\ UNCHANGED <<cfg, net, nbest, b, t, nsteps, hyps, end_hyps,
                   hyps_nobd, chunk, ignore_eos, n_frames, score_resets,
                   hyps_batch, ylens, g_eos_flags, nbest_hyps_idx, scores, eos_flags,
                   aws, dstates_final, lmstate_final, prev_spk, entry, ret, err,
                   new_session, dstate_prev, fwd, fwd_ret, fnet, lvars>>

\* one utterance of the loops of lines 63-165: str_true.split('_') and
\* str_pred.split('_') are the inputs
EvalUtt ==
    /\ pc = "e_utt"
    /\ ev.i < cfg.n_utts
    /\ \E raw_true \in WordLists, raw_pred \in WordLists :
         LET word_list_true == FilterTrue(raw_true)
             word_list_pred == FilterPred(raw_pred)
         IN ev' = IF Len(word_list_true) > 0
                  THEN [ev EXCEPT !.i = ev.i + 1,
                                  !.word_list_true = word_list_true,
                                  !.word_list_pred = word_list_pred,
                                  !.wer_mean = QAdd(ev.wer_mean,
                                                    compute_wer(word_list_true, word_list_pred)),
                                  !.cer_mean = QAdd(ev.cer_mean,
                                                    compute_cer(word_list_true, word_list_pred))]
                  ELSE [ev EXCEPT !.i = ev.i + 1,
                                  !.word_list_true = word_list_true,
                                  !.word_list_pred = word_list_pred,
                                  !.skip_utt_num = ev.skip_utt_num + 1]
    /\ UNCHANGED <<cfg, net, nbest, pc, calls, b, t, nsteps, hyps, end_hyps,
                   hyps_nobd, chunk, ignore_eos, n_frames, score_resets,
                   hyps_batch, ylens, g_eos_flags, nbest_hyps_idx, scores, eos_flags,
                   aws, dstates_final, lmstate_final, prev_spk, entry, ret, err,
                   new_session, dstate_prev, fwd, fwd_ret, fnet, lvars, ev_ret>>

\* lines 173-180: len(dataset) is cfg.n_utts
EvalReturn ==
    /\ pc = "e_utt"
    /\ ev.i = cfg.n_utts
    /\ IF cfg.n_utts - ev.skip_utt_num = 0
       THEN /\ pc' = "error"                \* cer_mean /= 0, line 173
            /\ err' = "ZeroDivisionError"
            /\ UNCHANGED <<ev, ev_ret>>
       ELSE /\ ev_ret' = [status |-> "returned",
                          cer_mean |-> Q(ev.cer_mean[1],
                                         ev.cer_mean[2] * (cfg.n_utts - ev.skip_utt_num)),
                          wer_mean |-> Q(ev.wer_mean[1],
                                         ev.wer_mean[2] * (cfg.n_utts - ev.skip_utt_num)),
                          skip_utt_num |-> ev.skip_utt_num]
            /\ ev' = NoEv
            /\ pc' = "idle"
            /\ err' = err
    /\ UNCHANGED <<cfg, net, nbest, calls, b, t, nsteps, hyps, end_hyps,
                   hyps_nobd, chunk, ignore_eos, n_frames, score_resets,
                   hyps_batch, ylens, g_eos_flags, nbest_hyps_idx, scores, eos_flags,
                   aws, dstates_final, lmstate_final, prev_spk, entry, ret,
                   new_session, dstate_prev, fwd, fwd_ret, fnet, lvars>>

\* beam_search with an ensemble member or with <eos> at another index
InitEns == InitWith(ConfigsEns)

NextEns ==
    \/ CallBeamSearch
    \/ BeamUtt
    \/ BeamStep
    \/ BeamFinishUtt
    \/ BeamReturn

SpecEns == InitEns /\ [][NextEns]_vars

\* greedy, beam_search and beam_search_chunk_sync on either cell type
InitDec == InitWith(ConfigsDec)

SpecDec == InitDec /\ [][Next]_vars

\* successive calls of beam_search with speakers
InitSpk == InitWith(ConfigsSpk)

NextSpk ==
    \/ CallBeamSearch
    \/ BeamUtt
    \/ BeamStep
    \/ BeamFinishUtt
    \/ BeamReturn

SpecSpk == InitSpk /\ [][NextSpk]_vars

\* successive training forward passes over one batch
InitFwd == InitWith(ConfigsFwd)

NextFwd ==
    \/ ResetSession
    \/ CallForward
    \/ ForwardStep
    \/ ForwardReturn

SpecFwd == InitFwd /\ [][NextFwd]_vars

\* successive calls of forward
InitLoss == InitWith(ConfigsLoss)

NextLoss ==
    \/ CallForwardLoss
    \/ ForwardXe
    \/ MbrItem
    \/ MbrDone
    \/ LossReturn

SpecLoss == InitLoss /\ [][NextLoss]_vars

\* evaluations of a dataset
InitCer == InitWith(ConfigsCer)

NextCer ==
    \/ CallEvalCer
    \/ EvalUtt
    \/ EvalReturn

SpecCer == InitCer /\ [][NextCer]_vars

\* ------------------------------------------------------------- claims
BeamPcs == {"bs_utt", "bs_step", "bs_finish", "bs_return"}

ChunkPcs == {"cs_step", "cs_return"}

GreedyPcs == {"g_step", "g_return"}

Returned(r) == r.status = "returned"

\* no <eos> before the last position of a token sequence
NoEosInside(seq) == \A i \in 1 .. (Len(seq) - 1) : seq[i] # eos

\* C1: after the pruning of every step of beam_search and of
\* beam_search_chunk_sync, and after the final merge of the streaming
\* variant, the active beam holds at most beam_width hypotheses.
C1_BeamWidth ==
    /\ pc \in {"bs_step", "bs_finish", "cs_step", "cs_return"} => Len(hyps) <= beam_width
    /\ Returned(ret.chunk) => Len(ret.chunk.hyps) <= beam_width

\* a step of beam_search that expanded a full beam, after a streaming call
\* that returned a full beam
C1_Witness ==
    /\ pc = "bs_step"
    /\ t = 2
    /\ beam_width = MaxBeam
    /\ Len(hyps) = beam_width
    /\ Returned(ret.chunk)
    /\ Len(ret.chunk.hyps) = beam_width

\* C2: every token sequence returned by greedy and by beam_search holds
\* <eos> only as its last token, and no active hypothesis of beam_search
\* (one that is fed to the next decode step) ends with an emitted <eos>.
C2_EosIsLast ==
    /\ Returned(ret.greedy) =>
         \A u \in 1 .. Len(ret.greedy.hyps) : NoEosInside(ret.greedy.hyps[u])
    /\ Returned(ret.beam) =>
         \A u \in 1 .. Len(ret.beam.hyps) : \A n \in 1 .. Len(ret.beam.hyps[u]) :
            NoEosInside(ret.beam.hyps[u][n])
    /\ pc \in BeamPcs =>
         /\ \A j \in 1 .. Len(hyps) : ~IsComplete(hyps[j]) /\ NoEosInside(Tail(hyps[j].hyp))
         /\ \A j \in 1 .. Len(end_hyps) : NoEosInside(Tail(end_hyps[j].hyp))

\* greedy about to return an item that kept generating after its <eos>,
\* after a beam_search call that returned a terminated hypothesis
C2_Witness ==
    /\ pc = "g_return"
    /\ \E u \in 1 .. bs : g_eos_flags[u] /\ ylens[u] < Len(hyps_batch[u])
    /\ Returned(ret.beam)
    /\ \E u \in 1 .. Len(ret.beam.hyps) : \E n \in 1 .. Len(ret.beam.hyps[u]) :
          Len(ret.beam.hyps[u][n]) > 1 /\ LastOf(ret.beam.hyps[u][n]) = eos

\* floor(T * max_len_ratio) + 1, written out
StepCeiling(T) == ((T * cfg.max_len_ratio) \div WDen) + 1

\* C3: greedy, beam_search (per utterance) and beam_search_chunk_sync (per
\* call) perform at most floor(T * max_len_ratio) + 1 decode steps and leave
\* the step loop when that many have been performed.
C3_StepCeiling ==
    /\ pc = "g_step" => nsteps < StepCeiling(xmax)
    /\ pc = "g_return" => nsteps <= StepCeiling(xmax)
    /\ pc = "bs_step" => nsteps < StepCeiling(cfg.elens[b])
    /\ pc = "bs_finish" => nsteps <= StepCeiling(cfg.elens[b])
    /\ pc = "cs_step" => nsteps < StepCeiling(chunk_size)
    /\ pc = "cs_return" => nsteps <= StepCeiling(chunk_size)

\* beam_search left the loop at the ceiling with nothing completed
C3_Witness ==
    /\ pc = "bs_finish"
    /\ nsteps = StepCeiling(cfg.elens[b])
    /\ nsteps = 3
    /\ end_hyps = <<>>
    /\ hyps # <<>>

\* the weighted sum of the component scores stored on h, in units of 1/WDen
WeightedSum(h) ==
    (WDen - cfg.scoring.ctc_weight) * h.score_att
    + cfg.scoring.ctc_weight * h.score_ctc
    + cfg.scoring.lp_weight * (Len(h.hyp) - 1)
    + cfg.scoring.cp_weight * h.score_cp
    + cfg.scoring.lm_weight * h.score_lm

ScoreIsWeightedSum == \A j \in 1 .. Len(end_hyps) : REq(end_hyps[j].score, <<WeightedSum(end_hyps[j]), 1>>)

\* C4 as stated: under every decoding configuration the total score of a
\* completed hypothesis of beam_search is the weighted sum of its stored
\* component scores.
C4_Original == pc \in {"bs_step", "bs_finish"} => ScoreIsWeightedSum

\* C4 as amended: without GNMT length penalty and without length
\* normalisation, the total score of a completed hypothesis of beam_search
\* is the weighted sum of its stored component scores.
C4_WeightedSum ==
    (pc \in {"bs_step", "bs_finish"} /\ ~cfg.scoring.gnmt_decoding /\ ~cfg.scoring.length_norm)
        => ScoreIsWeightedSum

\* a completed hypothesis of three tokens scored from all four sources
C4_Witness ==
    /\ pc = "bs_finish"
    /\ cfg.scoring.ctc_weight > 0
    /\ cfg.scoring.cp_weight > 0
    /\ \E j \in 1 .. Len(end_hyps) :
          /\ IsComplete(end_hyps[j])
          /\ Len(end_hyps[j].hyp) = 3
          /\ end_hyps[j].score_cp > 0
          /\ end_hyps[j].score_ctc < 0
          /\ end_hyps[j].score_lm < 0

\* C5 as stated: with beam width 1, no CTC weight and no LM, beam_search
\* returns for every utterance the token sequence greedy returns for the
\* same inputs, max_len_ratio and exclude_eos.
C5_Original ==
    (/\ Returned(ret.greedy)
     /\ Returned(ret.beam)
     /\ beam_width = 1
     /\ cfg.scoring.ctc_weight = 0
     /\ cfg.scoring.lm_weight = 0
     /\ ret.greedy.exclude_eos = ret.beam.exclude_eos)
        => \A u \in 1 .. bs : ret.beam.hyps[u][1] = ret.greedy.hyps[u]

\* C6 as stated: beam_search_chunk_sync called once on a single chunk that
\* is the whole encoder output returns the N-best token sequences that
\* beam_search returns for the same input and parameters.
\* (Checked where the streaming call completed at least nbest hypotheses,
\* no step found a zero attention mass, and neither coverage penalty nor
\* GNMT length penalty is configured.)
C6_Original ==
    (/\ Returned(ret.chunk)
     /\ ret.chunk.chunk = 0
     /\ ~ret.chunk.ignore_eos
     /\ Returned(ret.beam)
     /\ ~ret.beam.exclude_eos
     /\ bs = 1
     /\ cfg.scoring.cp_weight = 0
     /\ ~cfg.scoring.gnmt_decoding
     /\ \A k \in Vocab : net[k].aw # 0
     /\ Len(ret.chunk.end_hyps) >= Len(ret.beam.hyps[1]))
        => \A n \in 1 .. Len(ret.beam.hyps[1]) :
              Tail(ret.chunk.end_hyps[n].hyp) = ret.beam.hyps[1][n]

\* C7: a beam_search call with nbest < 1 or nbest > beam_width ends in an
\* assertion error with no hypothesis created and the stored state
\* (dstates_final, lmstate_final, prev_spk) as it was at entry; no call
\* with such an nbest gets past the assertion.
C7_NbestRejected ==
    /\ pc \in BeamPcs => (1 <= nbest /\ nbest <= beam_width)
    /\ err = "AssertionError" =>
         /\ nbest < 1 \/ nbest > beam_width
         /\ StoredState = entry
         /\ hyps = <<>> /\ end_hyps = <<>> /\ nbest_hyps_idx = <<>>

\* a rejected call made after a call that stored a final decoder state
C7_Witness ==
    /\ err = "AssertionError"
    /\ nbest > beam_width
    /\ dstates_final # <<None>>
    /\ calls = 2

\* C8 as stated: reaching the step ceiling with no completed hypothesis is
\* not an error; beam_search returns its N-best from the active beam.
C8_Original ==
    ~(/\ pc = "error"
      /\ b >= 1
      /\ nsteps = StepCeiling(cfg.elens[b])
      /\ end_hyps = <<>>
      /\ hyps # <<>>)

\* C9 as stated: when the active beam becomes empty and nothing has
\* completed, beam_search returns the active beam and does not fail.
C9_Original ==
    ~(/\ pc = "error"
      /\ b >= 1
      /\ nsteps >= 1
      /\ end_hyps = <<>>
      /\ hyps = <<>>)

\* C10 as stated: after global pruning (the backfill from the active beam)
\* the N-best list of the utterance has nbest entries.
C10_Original ==
    (pc = "bs_finish" /\ hyps # <<>>) => Len(GlobalPruning(end_hyps, hyps)) >= nbest

\* the utterance that beam_search finished last: end_hyps is its sorted list
LastUttDone == pc = "bs_return" \/ (pc = "bs_utt" /\ b > 1)

\* C11: the N-best list of an utterance of beam_search is the first nbest
\* entries of the final list in non-increasing order of total score, and
\* the attention trajectory returned for the utterance is that of entry 0.
C11_SortedNbest ==
    LastUttDone =>
        LET u == Len(nbest_hyps_idx)
        IN /\ \A n \in 2 .. Len(end_hyps) : ~RLess(end_hyps[n - 1].score, end_hyps[n].score)
           /\ \A n \in 1 .. nbest : nbest_hyps_idx[u][n] = Tail(end_hyps[n].hyp)
           /\ aws[u] = Tail(end_hyps[1].aws)

\* a list of two whose backfilled active hypothesis outranks the completed one
C11_Witness ==
    /\ pc = "bs_return"
    /\ nbest = 2
    /\ Len(end_hyps) = 2
    /\ ~IsComplete(end_hyps[1])
    /\ IsComplete(end_hyps[2])
    /\ RLess(end_hyps[2].score, end_hyps[1].score)

\* the token sequences of a list of hypotheses are pairwise different
DistinctHyps(hs) == \A i, j \in 1 .. Len(hs) : i # j => hs[i].hyp # hs[j].hyp

\* C12: at every step of beam_search no two active or completed
\* hypotheses of the utterance have the same token sequence, and no two
\* entries of a returned N-best list are the same token sequence.
C12_Distinct ==
    /\ pc \in {"bs_step", "bs_finish"} => DistinctHyps(hyps \o end_hyps)
    /\ LastUttDone => DistinctHyps(end_hyps)
    /\ Returned(ret.beam) =>
         \A u \in 1 .. Len(ret.beam.hyps) : \A i, j \in 1 .. Len(ret.beam.hyps[u]) :
            i # j => ret.beam.hyps[u][i] # ret.beam.hyps[u][j]

\* a full beam of three-token hypotheses with a common prefix next to a
\* completed hypothesis, after a call that returned an N-best list of two
C12_Witness ==
    /\ pc = "bs_finish"
    /\ Len(hyps) = 2
    /\ Len(hyps[1].hyp) = 3
    /\ hyps[1].hyp[2] = hyps[2].hyp[2]
    /\ end_hyps # <<>>
    /\ Returned(ret.beam)
    /\ Len(ret.beam.hyps[1]) = 2

\* the returned score <<n, d>> (n / d) is the total score of hypothesis h
\* (h.score = <<n, d>> stands for n / (d * WDen))
IsTotalScore(sc, h) == sc[1] * h.score[2] * WDen = h.score[1] * sc[2]

\* scoring by the attention decoder alone
AttentionOnly ==
    /\ cfg.scoring.ctc_weight = 0
    /\ cfg.scoring.lm_weight = 0
    /\ cfg.scoring.lp_weight = 0
    /\ cfg.scoring.cp_weight = 0

\* C13 as stated: the score returned for entry n of an utterance is the
\* total score by which the entry was ranked, so the returned scores of an
\* utterance are non-increasing.
C13_Original ==
    LastUttDone =>
        LET u == Len(scores)
        IN /\ \A n \in 1 .. nbest : IsTotalScore(scores[u][n], end_hyps[n])
           /\ \A n \in 2 .. nbest : ~RLess(scores[u][n - 1], scores[u][n])

\* C13 as amended: the score returned for entry n is the attention score of
\* the n-th ranked hypothesis, divided by its number of tokens under length
\* normalisation; it is the total score when the attention decoder is the
\* only source of the score.
C13_AttentionScore ==
    LastUttDone =>
        LET u == Len(scores)
        IN \A n \in 1 .. nbest :
              /\ scores[u][n][1] = end_hyps[n].score_att
              /\ scores[u][n][2] = IF cfg.scoring.length_norm
                                    THEN Len(end_hyps[n].hyp) - 1 ELSE 1
              /\ AttentionOnly => IsTotalScore(scores[u][n], end_hyps[n])

\* an N-best list of two, ranked with CTC and LM scores, whose returned
\* scores increase from entry 0 to entry 1
C13_Witness ==
    /\ pc = "bs_return"
    /\ nbest = 2
    /\ cfg.scoring.lm_weight > 0
    /\ cfg.scoring.ctc_weight > 0
    /\ RLess(scores[Len(scores)][1], scores[Len(scores)][2])

\* an utterance was decoded with speakers before the one in progress
HasPrevUtt == b > 1 \/ calls > 1

\* the speaker of the utterance decoded immediately before the one in progress
PrevSpeaker == IF b > 1 THEN cfg.speakers[calls][b - 1] ELSE cfg.speakers[calls - 1][bs]

\* C14: in beam_search with speakers, when the speaker of an utterance
\* differs from the speaker of the utterance before it (or there is none
\* before it), the stored decoder and LM state are cleared, the utterance
\* starts from the zero decoder state with no LM state, and the remembered
\* speaker becomes the current one.
C14_SpeakerChange ==
    (pc = "bs_step" /\ nsteps = 0 /\ cfg.speakers # <<>>) =>
        /\ prev_spk = Spk
        /\ (~HasPrevUtt \/ Spk # PrevSpeaker) =>
              /\ dstates_final = <<None>>
              /\ lmstate_final = <<None>>
              /\ hyps = <<InitHyp>>

\* the first utterance of a second call changes the speaker while the
\* decoder holds a final decoder state and a final LM state to carry over
C14_Witness ==
    /\ pc = "bs_step"
    /\ nsteps = 0
    /\ calls = 2
    /\ b = 1
    /\ cfg.asr_state_CO
    /\ cfg.lm_state_CO
    /\ Spk # PrevSpeaker
    /\ entry.dstates_final # <<None>>
    /\ entry.lmstate_final # <<None>>

\* C15 as stated: with decoder-state carry-over, an utterance of the speaker
\* of the utterance decoded immediately before it (in the same batch or in
\* the previous call) starts from the final decoder state of the best
\* hypothesis of that utterance.
C15_Original ==
    (/\ pc = "bs_utt"
     /\ cfg.speakers # <<>>
     /\ cfg.asr_state_CO
     /\ HasPrevUtt
     /\ Spk = PrevSpeaker)
        => StartDstates = IF b > 1 THEN end_hyps[1].dstates ELSE ret.beam.dstates

\* C16 as stated: with CTC joint scoring, a chunk call after the first
\* extends the CTC prefix scorer of the first chunk; the scorer is not
\* dropped, so the call does not fail for want of it.
C16_Original == ~(pc = "error" /\ err = "AttributeError" /\ ret.chunk # NotCalled)

\* the same hypotheses but for the no_boundary flag
SameButFlag(hs, gs) ==
    /\ Len(hs) = Len(gs)
    /\ \A j \in 1 .. Len(hs) : [hs[j] EXCEPT !.no_boundary = FALSE]
                                = [gs[j] EXCEPT !.no_boundary = FALSE]

\* a later chunk call has just been entered
LaterChunkEntered == pc = "cs_step" /\ nsteps = 0 /\ chunk > 0

\* C17 as stated: a chunk call made with existing hypotheses keeps their
\* tokens, scores, decoder state and LM state, keeps the frame counter, and
\* does not reinitialise the attention scorer.
C17_Original ==
    LaterChunkEntered =>
        /\ SameButFlag(hyps, ret.chunk.hyps)
        /\ n_frames = chunk * chunk_size
        /\ score_resets = entry.score_resets

\* What a later chunk call does: the hypotheses and the frame counter are
\* kept, only the no_boundary flags are cleared, and the attention scorer is
\* reset once more (line 1400 is outside the first-chunk branch).
C17_CarriedOver ==
    LaterChunkEntered =>
        /\ SameButFlag(hyps, ret.chunk.hyps)
        /\ \A j \in 1 .. Len(hyps) : ~hyps[j].no_boundary
        /\ n_frames = chunk * chunk_size
        /\ score_resets = entry.score_resets + 1

HasEos(seq) == \E i \in 1 .. Len(seq) : seq[i] = eos

FirstEos(seq) == CHOOSE i \in 1 .. Len(seq) :
                    seq[i] = eos /\ \A k \in 1 .. (i - 1) : seq[k] # eos

\* what greedy is to return for the generated tokens gen
UpToFirstEos(gen, exclude_eos) ==
    IF HasEos(gen)
    THEN Take(gen, IF exclude_eos THEN FirstEos(gen) - 1 ELSE FirstEos(gen))
    ELSE gen

\* C18: greedy keeps stepping only while some item has not emitted <eos>,
\* and returns for each item the generated tokens up to and including its
\* first <eos> (all of them if it emitted none); with exclude_eos the <eos>
\* is removed from the items that emitted it and from no other.
C18_GreedyOutput ==
    /\ [](pc = "g_step" => \E u \in 1 .. bs : ~HasEos(hyps_batch[u]))
    /\ [][pc = "g_return" =>
            \A u \in 1 .. bs :
                ret'.greedy.hyps[u] = UpToFirstEos(hyps_batch[u], ret'.greedy.exclude_eos)]_vars

\* greedy has returned, with exclude_eos, a batch in which one item emitted
\* <eos> at its first step and another never emitted it in two steps
C18_Witness ==
    /\ pc = "idle"
    /\ Returned(ret.greedy)
    /\ ret.greedy.exclude_eos
    /\ nsteps = 2
    /\ \E u, v \in 1 .. Len(ret.greedy.hyps) :
          /\ ret.greedy.hyps[u] = <<>>
          /\ Len(ret.greedy.hyps[v]) = 2
          /\ ~HasEos(ret.greedy.hyps[v])

FwdRunning == pc \in {"f_step", "f_return"}

\* the tokens fed to item u by the pass in progress
Fed(u) == Drop(fwd.dstates[u], Len(fwd.start[u]))

\* C19 as stated: position 0 is never sampled, and the decision to sample
\* is taken for each batch item on its own, that is, by one draw of
\* random.random() per item and position after 0.
C19_Original ==
    /\ FwdRunning /\ fwd.is_sample # <<>> => ~fwd.is_sample[1]
    /\ pc = "f_return" /\ cfg.ss_prob > 0 => fwd.n_draws = bs * (ymax_att - 1)

\* C19 as amended: position 0 is never sampled; at every later position one
\* draw decides for the whole batch, so that either every item is fed its
\* own previous 1-best or every item is fed its reference token.
C19_SharedDecision ==
    /\ ~(pc = "error" /\ err = "IndexError")
    /\ FwdRunning =>
         /\ fwd.is_sample # <<>> => ~fwd.is_sample[1]
         /\ fwd.n_draws = IF cfg.ss_prob > 0 /\ fwd.t > 0 THEN fwd.t - 1 ELSE 0
         /\ \A p \in 1 .. Len(fwd.is_sample) : \A u \in 1 .. bs :
               Fed(u)[p] = IF fwd.is_sample[p] THEN ArgMax(fwd.logits[u][p - 1])
                           ELSE ys_in(u)[p]

\* a pass over two items at rate 0.5 that sampled at position 1, where the
\* 1-best fed to each item differs from its reference token
C19_Witness ==
    /\ pc = "f_return"
    /\ bs = 2
    /\ cfg.ss_prob = 1
    /\ Len(fwd.is_sample) = 2
    /\ fwd.is_sample[2]
    /\ \A u \in 1 .. bs : Fed(u)[2] # ys_in(u)[2]

\* two passes over the same batch have returned, without sampling
TwoPasses == Len(fwd_ret) = 2 /\ cfg.ss_prob = 0

SameResult(r1, r2) == r1.logits = r2.logits /\ r1.loss = r2.loss

\* the decoder state of item u at its last reference position in pass r
LastTrueState(r, u) == Take(r.dstates[u], Len(r.start[u]) + ylens_att(u))

C21_Original == ~(Returned(fw_ret) /\ cfg.ctc_weight = 0 /\ att_weight = 0)

\* the attention-side loss of the call that returned r
AttSideLoss(r) ==
    IF MbrSelected
    THEN QAdd(r.observation.loss_mbr, Q(r.loss_ce * cfg.mbr_ce_weight, WDen))
    ELSE IF XeSelected THEN Weighted(r.observation.loss_att[1], att_weight)
    ELSE <<0, 1>>

\* C22 as stated: when forward has computed a CTC loss, the loss it returns
\* is that CTC loss, weighted by ctc_weight (unweighted under
\* mtl_per_batch), plus the attention-side loss, MBR training included.
C22_Original ==
    Returned(fw_ret) /\ fw_ret.observation.loss_ctc # None =>
        fw_ret.loss = QAdd(Weighted(fw_ret.observation.loss_ctc, cfg.ctc_weight),
                           AttSideLoss(fw_ret))

\* an item of the MBR loop has been processed
MbrItemDone == pc = "l_mbr" /\ fw.b > 0

\* C23: the weights of an item's N hypotheses are proportional to the
\* exponentials of their scores and sum to 1, and the expected word error
\* rate is the sum of weight times word error rate; weights 0.4, 0.3, 0.2,
\* 0.1 and error rates 0, 0.2, 0.4, 0.6 give 0.2.
C23_ExpectedWer ==
    /\ MbrItemDone =>
         LET ps == fw.scores_b_norm
             es == fw.exp_scores_b
             ws == fw.wers_b
             N == Len(ps)
         IN /\ N = cfg.n_best
            /\ SumSeq([n \in 1 .. N |-> ps[n][1] * (SumSeq(es) \div ps[n][2])]) = SumSeq(es)
            /\ \A n \in 1 .. N : ps[n][1] * SumSeq(es) = es[n] * ps[n][2]
            /\ fw.exp_wer_b[1] * 100 * SumSeq(es)
                 = SumSeq([n \in 1 .. N |-> es[n] * ws[n]]) * fw.exp_wer_b[2]
    /\ Softmax(<<4, 3, 2, 1>>) = <<<<2, 5>>, <<3, 10>>, <<1, 5>>, <<1, 10>>>>
    /\ ExpWer(Softmax(<<4, 3, 2, 1>>), <<0, 20, 40, 60>>) = <<1, 5>>

\* an item with three hypotheses of unequal weights and unequal error
\* rates, whose expected error rate is 0.5
C23_Witness ==
    /\ MbrItemDone
    /\ Len(fw.wers_b) = 3
    /\ fw.scores_b_norm[1] # fw.scores_b_norm[2]
    /\ fw.wers_b = <<0, 50, 100>>
    /\ fw.exp_wer_b = <<1, 2>>

\* C24 as stated: an utterance whose filtered reference is empty adds
\* nothing to the accumulated error rates and is left out of the
\* normalising count, and the final normalisation never divides by zero.
C24_Original ==
    /\ [][pc = "e_utt" /\ ev'.i = ev.i + 1 /\ ev'.word_list_true = <<>> =>
            /\ ev'.cer_mean = ev.cer_mean
            /\ ev'.wer_mean = ev.wer_mean
            /\ ev'.skip_utt_num = ev.skip_utt_num + 1]_vars
    /\ [](~(pc = "error" /\ err = "ZeroDivisionError"))

\* ------------------------------------------------------------ ensembles
\* an ensemble member of the call does not fit the main decoder
EnsMismatch == "ensmbl_mismatch" \in DOMAIN cfg /\ cfg.ensmbl_mismatch

\* C25 as stated: beam_search with an ensemble member that does not fit the
\* main decoder raises before its first decoding step, so no decode_step
\* ever runs in such a call.
C25_Original ==
    EnsMismatch => nsteps = 0

\* the decoder state and the attention history of h are those of the chain
\* of its own ancestors: the state after feeding every token of h but the
\* last, and the attention of each of these steps (no state carried over)
OwnParentState(h) ==
    /\ h.dstates = Front(h.hyp)
    /\ Len(h.aws) = Len(h.hyp)
    /\ \A i \in 1 .. (Len(h.hyp) - 1) : h.aws[i + 1] = RowOf(net, b, h.hyp[i]).aw

NonIncreasing(hs) ==
    \A i \in 1 .. (Len(hs) - 1) : ~RLess(hs[i].score, hs[i + 1].score)

\* the scores of kept are the n highest of all: kept takes n elements of
\* all (all of them if there are fewer), none scoring less than an element
\* that was left out
HighestOf(kept, all, n) ==
    /\ Len(kept) = (IF Len(all) < n THEN Len(all) ELSE n)
    /\ \E f \in [1 .. Len(kept) -> 1 .. Len(all)] :
          /\ \A i, j \in 1 .. Len(kept) : i # j => f[i] # f[j]
          /\ \A i \in 1 .. Len(kept) : kept[i] = all[f[i]]
          /\ \A o \in (1 .. Len(all)) \ {f[i] : i \in 1 .. Len(kept)} :
                \A i \in 1 .. Len(kept) : ~RLess(kept[i].score, all[o].score)

\* C27 as stated: the active beam that beam_search_chunk_sync returns is the
\* beam_width highest-scoring hypotheses of the active beam and the side
\* list together, in non-increasing order of score.
C27_Original ==
    pc = "cs_return" =>
        /\ NonIncreasing(MergedBeam)
        /\ HighestOf(MergedBeam, hyps \o hyps_nobd, beam_width)

\* the hypotheses held by the call: active beam, side list, completed
Held(hs, nobd, ends) ==
    {hs[i] : i \in 1 .. Len(hs)} \cup {nobd[i] : i \in 1 .. Len(nobd)}
        \cup {ends[i] : i \in 1 .. Len(ends)}

\* C28: during a chunk call a hypothesis of the beam that is flagged
\* no_boundary is not decoded again (whatever a step creates is a
\* continuation or a flagged copy of a hypothesis that was not flagged),
\* the step keeps it unchanged in the beam, the side list or the completed
\* list, and when every hypothesis of the beam is flagged the loop ends
\* without another decoding step.
C28_SetAside ==
    [][pc = "cs_step" =>
         /\ \A j \in 1 .. Len(hyps) :
               hyps[j].no_boundary => hyps[j] \in Held(hyps', hyps_nobd', end_hyps')
         /\ \A h \in Held(hyps', hyps_nobd', end_hyps') \ Held(hyps, hyps_nobd, end_hyps) :
               \E j \in 1 .. Len(hyps) :
                   /\ ~hyps[j].no_boundary
                   /\ h.hyp = hyps[j].hyp \/ Front(h.hyp) = hyps[j].hyp
         /\ (hyps # <<>> /\ \A j \in 1 .. Len(hyps) : hyps[j].no_boundary) =>
               pc' = "cs_return" /\ nsteps' = nsteps]_vars

\* a first chunk call is over after a step that decoded one hypothesis of
\* the beam and set a flagged one aside, and the side list is not empty
C28_Witness ==
    /\ pc = "cs_return"
    /\ chunk = 0
    /\ hyps_nobd # <<>>
    /\ \E i, j \in 1 .. Len(hyps) :
          /\ hyps[i].no_boundary /\ Len(hyps[i].hyp) < nsteps
          /\ ~hyps[j].no_boundary /\ Len(hyps[j].hyp) = nsteps + 1

\* the output of decode_step for hypothesis p in the step that was taken
StepRow(p) == RowOf(net', 1 + chunk, LastOf(p.hyp))

\* h continues p by one token: its attention history is that of the flagged
\* p followed by the attention of one more step
ContinuationOf(h, p) ==
    Front(h.hyp) = p.hyp /\ Front(h.aws) = Flagged(p).aws

\* the flagged copies of the hypotheses of hs: what a step keeps of a
\* hypothesis it flags, as opposed to the continuations it creates
FlaggedCopies(hs) == {Flagged(hs[i]) : i \in 1 .. Len(hs)}

\* C29: when a step of beam_search_chunk_sync decodes a hypothesis and the
\* attention mass is zero, the hypothesis is kept, flagged no_boundary, and
\* the only continuation of it the step may create is <eos>, and only with
\* ignore_eos off and the <eos> threshold passed (a continuation made by an
\* earlier chunk call may be in the beam; the step creates a flagged copy of
\* it, which is no continuation created by this step).
C29_ZeroMass ==
    [][(pc = "cs_step" /\ nsteps' = nsteps + 1) =>
         \A j \in 1 .. Len(hyps) :
             (~hyps[j].no_boundary /\ StepRow(hyps[j]).aw = 0) =>
                 /\ Flagged(hyps[j]) \in Held(hyps', hyps_nobd', end_hyps')
                 /\ \A h \in Held(hyps', hyps_nobd', end_hyps')
                              \ (Held(hyps, hyps_nobd, end_hyps) \cup FlaggedCopies(hyps)) :
                       ContinuationOf(h, hyps[j]) =>
                           /\ LastOf(h.hyp) = eos
                           /\ ~ignore_eos
                           /\ WDen * AttOf(StepRow(hyps[j]), eos) >
                                  cfg.eos_threshold * MaxNoEos(StepRow(hyps[j]), eos)]_vars

\* a step found no attention mass for a hypothesis, kept it flagged and
\* created its <eos> continuation
C29_Witness ==
    /\ pc \in {"cs_step", "cs_return"}
    /\ ~ignore_eos
    /\ \E h \in Held(hyps, hyps_nobd, end_hyps) :
          /\ h.no_boundary /\ Len(h.hyp) > 1 /\ LastOf(h.hyp) = eos
          /\ LastOf(h.aws) = 0
          /\ \E p \in Held(hyps, hyps_nobd, end_hyps) :
                p.no_boundary /\ p.hyp = Front(h.hyp) /\ LastOf(p.aws) = 0

\* ------------------------------------------------- the <eos> check
\* a completed hypothesis whose parent had at least min_len_ratio * T tokens
LongEnough(h, T) == WDen * (Len(h.hyp) - 2) >= T * cfg.min_len_ratio

\* C30 as stated: the <eos> check of beam_search is well defined wherever
\* <eos> sits in the vocabulary, so no step fails while it takes the best
\* score of the other tokens, and every completed hypothesis had a parent of
\* the minimum length.
C30_Original ==
    /\ ~(pc = "error" /\ err \in EmptyMaxErrors /\ hyps # <<>> /\ nsteps >= 1)
    /\ (pc \in {"bs_step", "bs_finish"}) =>
           \A j \in 1 .. Len(end_hyps) : LongEnough(end_hyps[j], cfg.elens[b])

\* ------------------------------------------------ the stored session state
\* training passes with discourse-aware carry-over
DiscourseTraining == "discourse_aware" \in DOMAIN cfg /\ cfg.training /\ cfg.discourse_aware

\* the state the pass in progress has produced for item u at its last
\* reference position
Snapshot(u) == Take(fwd.dstates[u], Len(fwd.start[u]) + ylens_att(u))

\* C31: when a training pass with discourse-aware carry-over has run its
\* steps, self.dstate_prev holds for every item the decoder state of the
\* item's own last position and new_session is cleared; the stored state is
\* still there when the pass has returned; and a pass starts from the zero
\* state if a new session was flagged and from the stored state otherwise.
C31_Snapshot ==
    /\ [](DiscourseTraining =>
            /\ pc = "f_return" =>
                  /\ ~new_session
                  /\ dstate_prev = [u \in 1 .. bs |-> Snapshot(u)]
            /\ (pc = "idle" /\ fwd_ret # <<>>) =>
                  dstate_prev = [u \in 1 .. bs |-> LastTrueState(LastOf(fwd_ret), u)])
    /\ [][(DiscourseTraining /\ pc = "idle" /\ pc' = "f_step") =>
             fwd'.start = IF new_session THEN zero_state ELSE dstate_prev]_vars

\* a second pass over two items of different lengths has started from the
\* state the first pass stored and has stored its own
C31_Witness ==
    /\ DiscourseTraining
    /\ pc = "f_return"
    /\ Len(fwd_ret) = 1
    /\ bs = 2
    /\ ylens_att(1) # ylens_att(2)
    /\ fwd.start = [u \in 1 .. bs |-> LastTrueState(fwd_ret[1], u)]
    /\ fwd.start # zero_state

\* ------------------------------------------------ lengths in beam_search
\* C32: at the start of step t of beam_search every active hypothesis has
\* t + 1 tokens (the start symbol included) and t + 1 entries of attention
\* history, and a completed hypothesis never has more than
\* floor(T * max_len_ratio) + 2 tokens.
C32_Lengths ==
    /\ pc = "bs_step" =>
          \A j \in 1 .. Len(hyps) :
              Len(hyps[j].hyp) = t + 1 /\ Len(hyps[j].aws) = t + 1
    /\ pc \in {"bs_step", "bs_finish"} =>
          \A j \in 1 .. Len(end_hyps) :
              Len(end_hyps[j].hyp) <= StepCeiling(cfg.elens[b]) + 1

\* step 2 of an utterance starts with two active hypotheses and one that
\* completed at an earlier step
C32_Witness ==
    /\ pc = "bs_step"
    /\ t = 2
    /\ Len(hyps) = 2
    /\ end_hyps # <<>>

\* ------------------------------------------- <eos> in the returned beam
\* C33 as stated: the active beam a chunk call of beam_search_chunk_sync
\* returns holds no hypothesis that ends with an emitted <eos>.
C33_Original ==
    Returned(ret.chunk) =>
        \A j \in 1 .. Len(ret.chunk.hyps) : ~IsComplete(ret.chunk.hyps[j])

\* C34 as stated: at every step of beam_search_chunk_sync and in the active
\* beam it returns, no two hypotheses have the same token sequence.
C34_Original ==
    /\ pc \in {"cs_step", "cs_return"} => DistinctHyps(hyps)
    /\ Returned(ret.chunk) => DistinctHyps(ret.chunk.hyps)

\* ------------------------------------------------ recurrent cell types
\* C35 as stated: beam_search and beam_search_chunk_sync do not fail on a
\* decoder built with the cell type 'gru', which has no cell state.
C35_Original ==
    rnn_type = "gru" => ~(pc = "error" /\ err = "UnboundLocalError")

\* ---------------------------------------------------- backward decoder
\* the attention of the step that generated token i of a returned list h of
\* item u: a backward decoder generated h[i] after h[i + 1]
GeneratedWith(u, h, i) ==
    RowOf(net, u, IF bwd THEN (IF i = Len(h) THEN eos ELSE h[i + 1])
                  ELSE (IF i = 1 THEN eos ELSE h[i - 1])).aw

\* C36 as stated: for a backward decoder, row i of the attention history
\* greedy returns for an item is the attention of the step that generated
\* token i of the token list it returns for that item.
C36_Original ==
    (Returned(ret.greedy) /\ bwd /\ ~ret.greedy.exclude_eos) =>
        \A u \in 1 .. bs : \A i \in 1 .. Len(ret.greedy.hyps[u]) :
            ret.greedy.aws[u][1][i] = GeneratedWith(u, ret.greedy.hyps[u], i)

\* ------------------------------------------------------ MBR gradient
\* C37: the gradient term handed to the MBR loss for an item, the sum over
\* its hypotheses of weight times (error rate minus expected error rate),
\* is zero whatever the weights and the error rates are.
C37_ZeroGradient ==
    /\ MbrItemDone =>
         /\ QSum(fw.scores_b_norm) = <<1, 1>>
         /\ fw.grad_b = <<0, 1>>
    /\ LET ps == Softmax(<<4, 3, 2, 1>>)
           ws == <<0, 20, 40, 60>>
       IN Grad(ps, ws, ExpWer(ps, ws)) = <<0, 1>>

\* an item with three hypotheses of unequal weights and three different
\* error rates, the best hypothesis being the least likely one
C37_Witness ==
    /\ MbrItemDone
    /\ fw.exp_scores_b = <<1, 2, 2>>
    /\ fw.wers_b = <<0, 100, 50>>
    /\ fw.exp_wer_b = <<3, 5>>
    /\ fw.grad_b = <<0, 1>>

\* ------------------------------------------------- training/inference mode
\* C38 as stated: forward leaves the training/inference mode of the decoder
\* as it was at entry, MBR training included, so between forward calls the
\* mode is the one the decoder was put in before the first call.
C38_Original ==
    (pc = "idle" /\ "training" \in DOMAIN cfg) => training = cfg.training

\* ------------------------------------------------- empty session context
\* C39 as stated: with discourse-aware carry-over, the first training
\* forward pass after construction, when no state was stored yet and no new
\* session was flagged, does not fail.
C39_Original ==
    ~(/\ DiscourseTraining
      /\ pc = "error" /\ err = "TypeError"
      /\ calls = 0 /\ dstate_prev = <<>> /\ ~new_session)

\* ------------------------------------------------ predicted word lists
\* C40 as stated: the predicted word list of an utterance, once normalised,
\* holds no hesitation (neither a word of HESITATIONS nor the class token
\* HESITATION), no noise, no laughter and no vocalized noise, as the
\* reference word list does.
C40_Original ==
    (pc = "e_utt" /\ ev.i > 0) =>
        \A i \in 1 .. Len(ev.word_list_pred) :
            ev.word_list_pred[i] \notin
                HESITATIONS \cup {HESITATION, NOISE, LAUGHTER, VOCALIZED_NOISE}
====
